---- MODULE Spec2Model ----
(***************************************************************************)
(* JackpotPredict: the multi-agent prediction engine.                      *)
(*                                                                         *)
(*   backend/app/agents/voting.py            normalize_answer, vote,       *)
(*                                           should_guess                  *)
(*   backend/app/agents/orchestrator.py      AgentOrchestrator.predict     *)
(*   backend/app/core/reasoning_accumulator.py  ThinkerContext,            *)
(*                                           ReasoningAccumulator          *)
(*   backend/app/api/routes.py               sessions, predict, reset,     *)
(*                                           get_thinker_status            *)
(*                                                                         *)
(* Representation.  A Python str is a sequence of one-character strings.   *)
(* The confidence of an agent's prediction is the whole number p of        *)
(* percent that stands for the float p/100, and a weight the number of     *)
(* tenths w that stands for the float w/10; every number computed from     *)
(* them is a float (see "Python floats").  A dict is the sequence of its   *)
(* insertion order.  None is the record NoneV; an Optional field of a      *)
(* dataclass is the empty sequence or a one-element sequence.  The context *)
(* string is the sequence of its lines, a line the tuple of its parts.     *)
(*                                                                         *)
(* routes.py is written against another orchestrator than the one of the  *)
(* sources: ClueRequest has no field theme, AgentOrchestrator.predict      *)
(* takes no theme, session_id or thinker_context, and AgentOrchestrator    *)
(* has no get_thinker_status; models.py has no ThinkerInsight and no       *)
(* ThinkerStatus, which routes.py imports from it, and the handlers are    *)
(* modelled with these two names bound to nothing.  The routes are         *)
(* modelled as the sources run: a submit ends in its except clause, a poll *)
(* in the NameError that its except clause raises.  The blocks of the      *)
(* routes that are not reached that way (the analysis stored, the insight  *)
(* merged) are modelled from their code and checked by themselves.         *)
(***************************************************************************)
EXTENDS Integers, Sequences, FiniteSets, TLC

NoneV == [nil |-> TRUE]

(***************************************************************************)
(* Strings                                                                 *)
(***************************************************************************)
\* the characters up to U+00FF that str.lower() changes, and what it makes
\* of each
UpperChars == <<"A","B","C","D","E","F","G","H","I","J","K","L","M",
                "N","O","P","Q","R","S","T","U","V","W","X","Y","Z",
                "À","Á","Â","Ã","Ä","Å","Æ","Ç","È","É","Ê","Ë","Ì",
                "Í","Î","Ï","Ð","Ñ","Ò","Ó","Ô","Õ","Ö","Ø","Ù","Ú",
                "Û","Ü","Ý","Þ">>
LowerChars == <<"a","b","c","d","e","f","g","h","i","j","k","l","m",
                "n","o","p","q","r","s","t","u","v","w","x","y","z",
                "à","á","â","ã","ä","å","æ","ç","è","é","ê","ë","ì",
                "í","î","ï","ð","ñ","ò","ó","ô","õ","ö","ø","ù","ú",
                "û","ü","ý","þ">>
\* the characters up to U+00FF that str.strip() removes and \s matches
\* (str.isspace): space, \t, \n, \r, \f, and the characters 11, 28 to 31,
\* 133 and 160, written raw in the last seven strings
Whitespace == {" ", "\t", "\n", "\r", "\f",
               "", "", "", "", "", "", " "}

\* the lower-case letter of each upper-case letter
LowerMap ==
    [c \in {UpperChars[i] : i \in 1..Len(UpperChars)} |->
        LowerChars[CHOOSE i \in 1..Len(UpperChars) : UpperChars[i] = c]]

\* str.lower() on one character
LowerChar(c) == IF c \in DOMAIN LowerMap THEN LowerMap[c] ELSE c

\* str.lower()
Lower(s) == [i \in 1..Len(s) |-> LowerChar(s[i])]

\* str.strip(): drop leading and trailing whitespace
RECURSIVE LStrip(_)
LStrip(s) ==
    IF s # <<>> /\ Head(s) \in Whitespace THEN LStrip(Tail(s)) ELSE s

RECURSIVE RStrip(_)
RStrip(s) ==
    IF s # <<>> /\ s[Len(s)] \in Whitespace
    THEN RStrip(SubSeq(s, 1, Len(s) - 1))
    ELSE s

Strip(s) == RStrip(LStrip(s))

\* s[:n]
Prefix(s, n) == SubSeq(s, 1, IF Len(s) < n THEN Len(s) ELSE n)

\* str.startswith(prefix)
StartsWith(s, prefix) ==
    /\ Len(s) >= Len(prefix)
    /\ SubSeq(s, 1, Len(prefix)) = prefix

\* the body of the prefix loop: normalized = normalized[len(prefix):]
RemovePrefix(s, prefix) ==
    IF StartsWith(s, prefix) THEN SubSeq(s, Len(prefix) + 1, Len(s)) ELSE s

\* voting.py: prefixes = ["the ", "a ", "an "]
prefixes == << <<"t","h","e"," ">>, <<"a"," ">>, <<"a","n"," ">> >>

\* voting.py normalize_answer: lower, strip, then the three prefixes tried
\* once each, in list order, on the running value
normalize_answer(answer) ==
    LET s0 == Strip(Lower(answer))
        s1 == RemovePrefix(s0, prefixes[1])
        s2 == RemovePrefix(s1, prefixes[2])
        s3 == RemovePrefix(s2, prefixes[3])
    IN  s3

(***************************************************************************)
(* Python floats                                                           *)
(*                                                                         *)
(* A Python float is an IEEE-754 binary64 number, and every operation on   *)
(* floats returns the exact result rounded to the nearest number with 53   *)
(* significant bits, ties to the even one.  A non-negative float is kept   *)
(* as the whole number of units of 2^-75 it is worth, written in base 2^15 *)
(* with the lowest limb first; a float that may be negative is a record    *)
(* [neg, mag].  Every float that occurs here is 0 or lies between 2^-10    *)
(* and 2^14 in magnitude, so it is a whole number of units.                *)
(***************************************************************************)
\* significant bits of a float
Mantissa == 53

\* bits of a limb, limbs below the unit of 1, limbs of a float
LimbBits == 15
FracLimbs == 5
NumLimbs == FracLimbs + 1

RECURSIVE Pow2(_)
Pow2(k) == IF k = 0 THEN 1 ELSE 2 * Pow2(k - 1)

\* the powers of two up to the base
Powers == [k \in 0..LimbBits |-> Pow2(k)]
Base == Powers[LimbBits]

Zeros(n) == [i \in 1..n |-> 0]

\* the integer k as a float
FromInt(k) == [i \in 1..NumLimbs |-> IF i = NumLimbs THEN k ELSE 0]

\* 2^k in n limbs
PowLimbs(n, k) ==
    [i \in 1..n |-> IF i = k \div LimbBits + 1 THEN Powers[k % LimbBits] ELSE 0]

\* a + b + carry, in Len(a) limbs
RECURSIVE AddCarry(_, _, _)
AddCarry(a, b, carry) ==
    IF a = <<>> THEN <<>>
    ELSE LET s == Head(a) + Head(b) + carry
         IN  <<s % Base>> \o AddCarry(Tail(a), Tail(b), s \div Base)

\* a - b - borrow for a >= b
RECURSIVE SubBorrow(_, _, _)
SubBorrow(a, b, borrow) ==
    IF a = <<>> THEN <<>>
    ELSE LET d == Head(a) - Head(b) - borrow
         IN  IF d < 0
             THEN <<d + Base>> \o SubBorrow(Tail(a), Tail(b), 1)
             ELSE <<d>> \o SubBorrow(Tail(a), Tail(b), 0)

\* a < b, a = b or a > b as -1, 0 or 1
RECURSIVE CmpLimbs(_, _)
CmpLimbs(a, b) ==
    IF a = <<>> THEN 0
    ELSE LET n == Len(a)
         IN  IF a[n] < b[n] THEN -1
             ELSE IF a[n] > b[n] THEN 1
             ELSE CmpLimbs(SubSeq(a, 1, n - 1), SubSeq(b, 1, n - 1))

\* a * k + carry for a small k, in Len(a) limbs
RECURSIVE MulSmall(_, _, _)
MulSmall(a, k, carry) ==
    IF a = <<>> THEN <<>>
    ELSE LET s == Head(a) * k + carry
         IN  <<s % Base>> \o MulSmall(Tail(a), k, s \div Base)

\* a * b in Len(a) limbs
RECURSIVE MulLimbs(_, _)
MulLimbs(a, b) ==
    IF b = <<>> THEN Zeros(Len(a))
    ELSE AddCarry(MulSmall(a, Head(b), 0),
                  <<0>> \o SubSeq(MulLimbs(a, Tail(b)), 1, Len(a) - 1), 0)

\* quotient and remainder of a by a small d, from the highest limb down
RECURSIVE DivSmall(_, _, _)
DivSmall(a, d, rem) ==
    IF a = <<>> THEN [q |-> <<>>, r |-> rem]
    ELSE LET n == Len(a)
             cur == rem * Base + a[n]
             rest == DivSmall(SubSeq(a, 1, n - 1), d, cur % d)
         IN  [q |-> Append(rest.q, cur \div d), r |-> rest.r]

\* the number of significant bits of one limb
RECURSIVE BitsOf(_)
BitsOf(k) == IF k = 0 THEN 0 ELSE 1 + BitsOf(k \div 2)

\* the number of significant bits of a
RECURSIVE BitLength(_)
BitLength(a) ==
    IF a = <<>> THEN 0
    ELSE IF a[Len(a)] # 0
         THEN LimbBits * (Len(a) - 1) + BitsOf(a[Len(a)])
         ELSE BitLength(SubSeq(a, 1, Len(a) - 1))

\* bit k of a, bit 0 the lowest
Bit(a, k) == (a[k \div LimbBits + 1] \div Powers[k % LimbBits]) % 2

\* a with its s lowest bits cleared
ClearLow(a, s) ==
    [i \in 1..Len(a) |->
        IF i < s \div LimbBits + 1 THEN 0
        ELSE IF i = s \div LimbBits + 1
        THEN (a[i] \div Powers[s % LimbBits]) * Powers[s % LimbBits]
        ELSE a[i]]

\* round to nearest, ties to even: the exact value a (plus something below
\* its last unit when sticky) rounded to 53 significant bits
Round53(a, sticky) ==
    LET s == BitLength(a) - Mantissa
    IN  IF s <= 0 THEN a
        ELSE LET half == AddCarry(a, PowLimbs(Len(a), s - 1), 0)
                 bumped == IF sticky \/ Bit(a, s) = 1 THEN half
                           ELSE SubBorrow(half, Zeros(Len(a)), 1)
             IN  ClearLow(bumped, s)

\* a + b
FAdd(a, b) == Round53(AddCarry(a, b, 0), FALSE)

\* a - b
FSub(a, b) ==
    IF CmpLimbs(a, b) >= 0
    THEN [neg |-> FALSE, mag |-> Round53(SubBorrow(a, b, 0), FALSE)]
    ELSE [neg |-> TRUE, mag |-> Round53(SubBorrow(b, a, 0), FALSE)]

\* a * b: the exact product has units of 2^-150
FMul(a, b) ==
    LET exact == MulLimbs(a \o Zeros(NumLimbs), b)
    IN  SubSeq(Round53(exact, FALSE), FracLimbs + 1, FracLimbs + NumLimbs)

\* a * k for a small whole k
FMulInt(a, k) == Round53(MulSmall(a, k, 0), FALSE)

\* a / n for a small whole n
FDivInt(a, n) ==
    LET d == DivSmall(a, n, 0)
    IN  Round53(d.q, d.r # 0)

\* the float written p/q or read from the decimal literal of p/q
FromRatio(p, q) == FDivInt(FromInt(p), q)

FZero == FromInt(0)
FGe(a, b) == CmpLimbs(a, b) >= 0
FGt(a, b) == CmpLimbs(a, b) > 0

\* int(a): the whole part
FTrunc(a) == a[NumLimbs]

\* f"{a:.0f}": the nearest whole number, ties to even
FRound0(a) ==
    LET c == CmpLimbs(SubSeq(a, 1, FracLimbs),
                      PowLimbs(FracLimbs, LimbBits * FracLimbs - 1))
    IN  IF c > 0 THEN a[NumLimbs] + 1
        ELSE IF c < 0 THEN a[NumLimbs]
        ELSE IF a[NumLimbs] % 2 = 0 THEN a[NumLimbs] ELSE a[NumLimbs] + 1

\* the float of a confidence of p percent, and of a weight of w tenths
PctFloat == [p \in 0..100 |-> FromRatio(p, 100)]
TenthFloat == [w \in 0..15 |-> FromRatio(w, 10)]

\* weight * pred.confidence
WeightedConfidence ==
    [w \in 0..15 |-> [p \in 0..100 |-> FMul(TenthFloat[w], PctFloat[p])]]

(***************************************************************************)
(* Agents and weights                                                      *)
(***************************************************************************)
\* orchestrator.py _init_agents: the dict of agents, in insertion order
AgentOrder == <<"lateral", "wordsmith", "popculture", "literal", "wildcard">>
Agents == {AgentOrder[i] : i \in 1..Len(AgentOrder)}
NumAgents == 5

\* voting.py CLUE_WEIGHTS, in tenths
CLUE_WEIGHTS ==
    [n \in 1..5 |->
       CASE n = 1 -> [lateral |-> 15, wordsmith |-> 15, popculture |-> 10,
                      literal |-> 5, wildcard |-> 12]
         [] n = 2 -> [lateral |-> 13, wordsmith |-> 13, popculture |-> 11,
                      literal |-> 7, wildcard |-> 10]
         [] n = 3 -> [lateral |-> 10, wordsmith |-> 10, popculture |-> 12,
                      literal |-> 10, wildcard |-> 8]
         [] n = 4 -> [lateral |-> 9, wordsmith |-> 9, popculture |-> 11,
                      literal |-> 12, wildcard |-> 7]
         [] OTHER -> [lateral |-> 8, wordsmith |-> 8, popculture |-> 10,
                      literal |-> 13, wildcard |-> 6]]

\* in place of WeightsFor: an unknown clue number gets the last table
WeightsForMut(clue_number) ==
    IF clue_number \in DOMAIN CLUE_WEIGHTS
    THEN CLUE_WEIGHTS[clue_number]
    ELSE CLUE_WEIGHTS[5]

\* self.weights.get(clue_number, self.weights[3])
WeightsFor(clue_number) ==
    IF clue_number \in DOMAIN CLUE_WEIGHTS
    THEN CLUE_WEIGHTS[clue_number]
    ELSE CLUE_WEIGHTS[3]

\* clue_weights.get(agent_name, 1.0)
WeightOf(clue_weights, agent_name) ==
    IF agent_name \in DOMAIN clue_weights THEN clue_weights[agent_name] ELSE 10

(***************************************************************************)
(* Dicts as item sequences                                                 *)
(***************************************************************************)
\* a predictions dict is a sequence of items [agent |-> name, pred |-> p],
\* p an AgentPrediction record or NoneV
RECURSIVE FilterValid(_)
FilterValid(items) ==
    IF items = <<>> THEN <<>>
    ELSE IF Head(items).pred = NoneV
         THEN FilterValid(Tail(items))
         ELSE <<Head(items)>> \o FilterValid(Tail(items))

\* predictions[agent_name]
PredOf(items, agent_name) ==
    items[CHOOSE i \in 1..Len(items) : items[i].agent = agent_name].pred

(***************************************************************************)
(* voting.py                                                               *)
(***************************************************************************)
StrUnknown == <<"U","n","k","n","o","w","n">>
StrNoInsight == <<"N","o"," ","i","n","s","i","g","h","t">>
StrNoValid == <<"N","o"," ","v","a","l","i","d",
                " ","p","r","e","d","i","c","t","i","o","n","s">>

\* cluster_predictions: one pass over the items; a new key is appended to
\* the clusters dict, a known key gets the agent appended to its list
RECURSIVE ClusterInto(_, _)
ClusterInto(clusters, items) ==
    IF items = <<>> THEN clusters
    ELSE
      LET it == Head(items)
          normalized == normalize_answer(it.pred.answer)
          known == \E i \in 1..Len(clusters) : clusters[i].key = normalized
          next ==
            IF it.pred = NoneV THEN clusters
            ELSE IF known
            THEN [i \in 1..Len(clusters) |->
                    IF clusters[i].key = normalized
                    THEN [clusters[i] EXCEPT !.agents = Append(@, it.agent)]
                    ELSE clusters[i]]
            ELSE Append(clusters, [key |-> normalized, agents |-> <<it.agent>>])
      IN  ClusterInto(next, Tail(items))

cluster_predictions(predictions) == ClusterInto(<<>>, predictions)

\* s[:-1]
Front(s) == SubSeq(s, 1, Len(s) - 1)
Last(s) == s[Len(s)]

\* in place of TotalVotes: every agent counts with weight 1.0
RECURSIVE TotalVotesMut(_, _, _)
TotalVotesMut(agent_names, valid, clue_weights) ==
    IF agent_names = <<>> THEN FZero
    ELSE FAdd(TotalVotesMut(Front(agent_names), valid, clue_weights),
              WeightedConfidence[10][PredOf(valid, Last(agent_names)).confidence])

\* total_votes = 0.0, then total_votes += weight * pred.confidence for
\* each agent of the cluster in list order
RECURSIVE TotalVotes(_, _, _)
TotalVotes(agent_names, valid, clue_weights) ==
    IF agent_names = <<>> THEN FZero
    ELSE FAdd(TotalVotes(Front(agent_names), valid, clue_weights),
              WeightedConfidence[WeightOf(clue_weights, Last(agent_names))]
                                [PredOf(valid, Last(agent_names)).confidence])

\* sum(confidences): the floats added one by one from the left, starting
\* from 0
RECURSIVE SumConf(_, _)
SumConf(agent_names, valid) ==
    IF agent_names = <<>> THEN FZero
    ELSE FAdd(SumConf(Front(agent_names), valid),
              PctFloat[PredOf(valid, Last(agent_names)).confidence])

\* the VoteResult built for one cluster
MakeVoteResult(cluster, valid, clue_weights) ==
    [answer |-> PredOf(valid, cluster.agents[1]).answer,
     total_votes |-> TotalVotes(cluster.agents, valid, clue_weights),
     agents |-> cluster.agents,
     avg_confidence |->
        FDivInt(SumConf(cluster.agents, valid), Len(cluster.agents))]

\* the loop over clusters.items(): one VoteResult appended per cluster
RECURSIVE VoteResults(_, _, _)
VoteResults(clusters, valid, clue_weights) ==
    IF clusters = <<>> THEN <<>>
    ELSE <<MakeVoteResult(Head(clusters), valid, clue_weights)>>
         \o VoteResults(Tail(clusters), valid, clue_weights)

\* list.sort(key=total_votes, reverse=True): stable, descending
RECURSIVE InsertDesc(_, _)
InsertDesc(sorted, x) ==
    IF sorted = <<>> THEN <<x>>
    ELSE IF FGe(Head(sorted).total_votes, x.total_votes)
         THEN <<Head(sorted)>> \o InsertDesc(Tail(sorted), x)
         ELSE <<x>> \o sorted

RECURSIVE SortDesc(_, _)
SortDesc(sorted, rest) ==
    IF rest = <<>> THEN sorted
    ELSE SortDesc(InsertDesc(sorted, Head(rest)), Tail(rest))

\* in place of AgreementOf: three agreeing agents already count as strong
AgreementOfMut(num_agreeing) ==
    IF num_agreeing >= 3 THEN "strong"
    ELSE IF num_agreeing >= 2 THEN "moderate"
    ELSE "weak"

\* agreement strength from the member count of the winning cluster
AgreementOf(num_agreeing) ==
    IF num_agreeing >= 4 THEN "strong"
    ELSE IF num_agreeing >= 2 THEN "moderate"
    ELSE "weak"

\* the key-insight loop: the first member whose confidence beats the
\* running best, starting from best_conf = 0.0 and "No insight"
RECURSIVE KeyInsight(_, _, _, _)
KeyInsight(agent_names, valid, best_conf, insight) ==
    IF agent_names = <<>> THEN insight
    ELSE LET pred == PredOf(valid, Head(agent_names))
         IN  IF pred.confidence > best_conf
             THEN KeyInsight(Tail(agent_names), valid, pred.confidence,
                             pred.reasoning)
             ELSE KeyInsight(Tail(agent_names), valid, best_conf, insight)

\* in place of NoPredictionsResult: the empty vote reported as a weak one
NoPredictionsResultMut ==
    [recommended_pick |-> StrUnknown,
     recommended_confidence |-> FZero,
     key_insight |-> StrNoValid,
     agreement_strength |-> "weak",
     vote_breakdown |-> <<>>]

\* the VotingResult returned when no prediction is present
NoPredictionsResult ==
    [recommended_pick |-> StrUnknown,
     recommended_confidence |-> FZero,
     key_insight |-> StrNoValid,
     agreement_strength |-> "none",
     vote_breakdown |-> <<>>]

\* WeightedVoting.vote
vote(predictions, clue_number) ==
    LET clue_weights == WeightsFor(clue_number)
        valid == FilterValid(predictions)
    IN  IF valid = <<>> THEN NoPredictionsResult
        ELSE
          LET clusters == cluster_predictions(valid)
              vote_results == VoteResults(clusters, valid, clue_weights)
              sorted == SortDesc(<<>>, vote_results)
              winner == sorted[1]
          IN  [recommended_pick |-> winner.answer,
               recommended_confidence |-> winner.avg_confidence,
               key_insight |-> KeyInsight(winner.agents, valid, 0, StrNoInsight),
               agreement_strength |-> AgreementOf(Len(winner.agents)),
               vote_breakdown |-> sorted]

\* should_guess: thresholds
thresholds ==
    [n \in 1..5 |->
       CASE n = 1 -> [min_conf |-> PctFloat[90], min_agreement |-> "strong"]
         [] n = 2 -> [min_conf |-> PctFloat[85], min_agreement |-> "strong"]
         [] n = 3 -> [min_conf |-> PctFloat[75], min_agreement |-> "moderate"]
         [] n = 4 -> [min_conf |-> PctFloat[65], min_agreement |-> "weak"]
         [] OTHER -> [min_conf |-> PctFloat[0], min_agreement |-> "none"]]

\* thresholds.get(clue_number, (0.75, "moderate"))
ThresholdFor(clue_number) ==
    IF clue_number \in DOMAIN thresholds
    THEN thresholds[clue_number]
    ELSE [min_conf |-> PctFloat[75], min_agreement |-> "moderate"]

agreement_order == [none |-> 0, weak |-> 1, moderate |-> 2, strong |-> 3]

\* f"{conf*100:.0f}": the float conf*100 written with no decimals
RoundPct(conf) == FRound0(FMulInt(conf, 100))

\* in place of should_guess: the confidence has to exceed the threshold
should_guessMut(voting_result, clue_number) ==
    LET conf == voting_result.recommended_confidence
        agreement == voting_result.agreement_strength
        num_agreeing ==
            IF voting_result.vote_breakdown # <<>>
            THEN Len(voting_result.vote_breakdown[1].agents) ELSE 0
        th == ThresholdFor(clue_number)
    IN  IF clue_number = 5
        THEN [guess |-> TRUE, rationale |-> <<"last_clue">>]
        ELSE IF /\ FGt(conf, th.min_conf)
                /\ agreement_order[agreement] >= agreement_order[th.min_agreement]
        THEN [guess |-> TRUE,
              rationale |-> <<"agents_agree", num_agreeing, RoundPct(conf)>>]
        ELSE [guess |-> FALSE, rationale |-> <<"wait", RoundPct(conf)>>]

\* WeightedVoting.should_guess: (decision, rationale); the rationale is
\* kept as its template name and the numbers formatted into it
should_guess(voting_result, clue_number) ==
    LET conf == voting_result.recommended_confidence
        agreement == voting_result.agreement_strength
        num_agreeing ==
            IF voting_result.vote_breakdown # <<>>
            THEN Len(voting_result.vote_breakdown[1].agents) ELSE 0
        th == ThresholdFor(clue_number)
    IN  IF clue_number = 5
        THEN [guess |-> TRUE, rationale |-> <<"last_clue">>]
        ELSE IF /\ FGe(conf, th.min_conf)
                /\ agreement_order[agreement] >= agreement_order[th.min_agreement]
        THEN [guess |-> TRUE,
              rationale |-> <<"agents_agree", num_agreeing, RoundPct(conf)>>]
        ELSE [guess |-> FALSE, rationale |-> <<"wait", RoundPct(conf)>>]

(***************************************************************************)
(* Bounds and inputs                                                       *)
(***************************************************************************)
\* concurrent request handlers
MaxReq == 2
Req == 1..MaxReq

\* largest clue_number handed to the orchestrator in the single-turn runs
MaxClueNumber == 6

\* the clue texts of the puzzle: the n-th clue submitted to a session
StrClueA == <<"c","1">>
StrClueB == <<"c","2">>
ClueAt(n) == IF n % 2 = 1 THEN StrClueA ELSE StrClueB

StrBowling == <<"B","o","w","l","i","n","g">>
StrSquidGame == <<"S","q","u","i","d","G","a","m","e">>
StrLife == <<"L","i","f","e">>
StrRoulette == <<"R","o","u","l","e","t","t","e">>
StrStrike == <<"s","t","r","i","k","e">>
StrPins == <<"p","i","n","s">>
StrShow == <<"s","h","o","w">>
StrGame == <<"g","a","m","e">>
StrSpin == <<"s","p","i","n">>

\* what each specialist answers when it answers (AgentPrediction)
AgentAnswer ==
    [lateral    |-> [answer |-> StrBowling, confidence |-> 85,
                     reasoning |-> StrStrike],
     wordsmith  |-> [answer |-> StrBowling, confidence |-> 80,
                     reasoning |-> StrPins],
     popculture |-> [answer |-> StrSquidGame, confidence |-> 60,
                     reasoning |-> StrShow],
     literal    |-> [answer |-> StrLife, confidence |-> 40,
                     reasoning |-> StrGame],
     wildcard   |-> [answer |-> StrRoulette, confidence |-> 55,
                     reasoning |-> StrSpin]]

\* how a specialist call ends: agent.predict returns a prediction ("ok"),
\* returns None ("none"), wait_for times out ("timeout"), or it raises
\* another exception ("error")
AgentOutcomes == {"ok", "none", "timeout", "error"}
AgentSettled == AgentOutcomes

\* how the Oracle call ends: a synthesis ("ok"), None after a failed or
\* unparsable call ("none"), or the wait_for timeout ("timeout")
OracleOutcomes == {"ok", "none", "timeout"}

\* the synthesis of a successful Oracle call (OracleSynthesis)
OracleAnswer ==
    [top_3 |-> << [answer |-> StrBowling, confidence |-> 92,
                   explanation |-> StrStrike] >>,
     key_theme |-> StrGame,
     blind_spot |-> StrSpin,
     latency_ms |-> 900]

(***************************************************************************)
(* State                                                                   *)
(***************************************************************************)
VARIABLES
    orch,          \* [Req -> frame of AgentOrchestrator.predict]
    hist,          \* [Req -> what was observed when the frame voted]
    handler,       \* [Req -> frame of routes.predict]
    session_objs,  \* [session id -> SessionState], every object created
    sessions,      \* routes._sessions: the ids that are keys of the dict
    uuid_count,    \* number of uuid4() ids drawn
    calls,         \* number of submit_clue requests received
    poll_log,      \* the last poll and its answer
    reset_log,     \* the resets served: request and ResetResponse of each
    activity,      \* [live session id -> time of its last submit or poll]
    call,          \* a call of a pure function: its arguments and result
    now,           \* datetime.now(), in minutes
    oracle         \* the OracleAgent singleton: [enabled |-> BOOLEAN]

orchVars == <<orch, hist>>
serverVars == <<orch, hist, handler, session_objs, sessions, uuid_count, calls,
                poll_log, reset_log, activity, now, oracle>>
sessVars == <<handler, session_objs, sessions, uuid_count, calls, poll_log,
             reset_log, activity, call, now, oracle>>
vars == <<orch, hist, handler, session_objs, sessions, uuid_count, calls,
          poll_log, reset_log, activity, call, now, oracle>>

(***************************************************************************)
(* orchestrator.py: AgentOrchestrator                                      *)
(***************************************************************************)
IdleFrame ==
    [pc |-> "idle",
     sid |-> 0,
     clue_number |-> 0,
     oracle_enabled |-> FALSE,
     oracle_task |-> "absent",
     oracle_input |-> NoneV,
     oracle_value |-> NoneV,
     agent_run |-> [a \in Agents |-> "idle"],
     predictions |-> <<>>,
     failed_agents |-> <<>>,
     voting_result |-> NoneV,
     should_guess |-> NoneV,
     oracle_synthesis |-> NoneV,
     result |-> NoneV]

IdleHist ==
    [settled_at_vote |-> {},
     oracle_at_vote |-> "absent",
     out_of_order |-> FALSE]

\* in place of RunAgent: a timeout that escapes _run_agent
RunAgentMut(agent_name, outcome) ==
    IF outcome = "ok"
    THEN [raised |-> FALSE, value |-> AgentAnswer[agent_name]]
    ELSE IF outcome = "timeout"
    THEN [raised |-> TRUE, value |-> NoneV]
    ELSE [raised |-> FALSE, value |-> NoneV]

\* _run_agent: the try/except around wait_for(agent.predict(...)); every
\* way the call ends becomes a returned (agent_name, prediction or None)
RunAgent(agent_name, outcome) ==
    IF outcome = "ok"
    THEN [raised |-> FALSE, value |-> AgentAnswer[agent_name]]
    ELSE [raised |-> FALSE, value |-> NoneV]

\* in place of AllSettled: resuming as soon as one task is done
AllSettledMut(agent_run) == \E a \in Agents : agent_run[a] \in AgentSettled

\* await asyncio.gather(*tasks) resumes when every task is done
AllSettled(agent_run) == \A a \in Agents : agent_run[a] \in AgentSettled

\* results of gather, in the order of the tasks (the agents dict order);
\* a task that is not done has no result
GatherResults(agent_run) ==
    [i \in 1..Len(AgentOrder) |->
        [agent |-> AgentOrder[i],
         res |-> IF agent_run[AgentOrder[i]] \in AgentSettled
                 THEN RunAgent(AgentOrder[i], agent_run[AgentOrder[i]])
                 ELSE [raised |-> FALSE, value |-> NoneV]]]

\* the collection loop: predictions[agent_name] = prediction for the
\* results that are not None
RECURSIVE CollectPredictions(_)
CollectPredictions(results) ==
    IF results = <<>> THEN <<>>
    ELSE IF Head(results).res.value # NoneV
         THEN <<[agent |-> Head(results).agent, pred |-> Head(results).res.value]>>
              \o CollectPredictions(Tail(results))
         ELSE CollectPredictions(Tail(results))

\* the collection loop: failed_agents.append(agent_name) for the others
RECURSIVE CollectFailed(_)
CollectFailed(results) ==
    IF results = <<>> THEN <<>>
    ELSE IF Head(results).res.value # NoneV
         THEN CollectFailed(Tail(results))
         ELSE <<Head(results).agent>> \o CollectFailed(Tail(results))

\* in place of OracleTaskDone: the Oracle task not awaited
OracleTaskDoneMut(oracle_task) == TRUE

\* await oracle_task returns once the task is done
OracleTaskDone(oracle_task) == oracle_task \in OracleOutcomes

\* in place of AwaitOracle: an Oracle timeout that escapes predict
AwaitOracleMut(oracle_task, oracle_value) ==
    IF oracle_task = "ok" THEN [raised |-> FALSE, value |-> oracle_value]
    ELSE IF oracle_task = "timeout" THEN [raised |-> TRUE, value |-> NoneV]
    ELSE [raised |-> FALSE, value |-> NoneV]

\* the try/except around await oracle_task
AwaitOracle(oracle_task, oracle_value) ==
    IF oracle_task = "ok" THEN [raised |-> FALSE, value |-> oracle_value]
    ELSE [raised |-> FALSE, value |-> NoneV]

\* in place of OracleCallArgs: the clue of the current turn left out
OracleCallArgsMut(session, clue_number) ==
    [clues |-> Prefix(session.clues, clue_number - 1),
     clue_number |-> clue_number,
     prior_analyses |-> session.clue_analyses]

\* the arguments of oracle.synthesize_early: clues and prior_analyses are
\* the session's own lists, read when the Oracle task first runs
OracleCallArgs(session, clue_number) ==
    [clues |-> session.clues,
     clue_number |-> clue_number,
     prior_analyses |-> session.clue_analyses]

\* predict, up to the suspension in gather: the Oracle task is created
\* first (when the Oracle is enabled), then the five specialist tasks
PredictEnter(sid, clue_number, oracle_enabled) ==
    [IdleFrame EXCEPT
        !.pc = "gather",
        !.sid = sid,
        !.clue_number = clue_number,
        !.oracle_enabled = oracle_enabled,
        !.oracle_task = IF oracle_enabled THEN "scheduled" ELSE "absent",
        !.agent_run = [a \in Agents |-> "running"]]

\* the first step of the Oracle task: synthesize_early builds its context
OracleStart(r) ==
    /\ orch[r].oracle_task = "scheduled"
    /\ orch' = [orch EXCEPT ![r].oracle_task = "running",
                            ![r].oracle_input =
                                OracleCallArgs(session_objs[orch[r].sid],
                                               orch[r].clue_number)]
    /\ UNCHANGED <<hist, sessVars>>

\* the Oracle task ends
OracleSettle(r) ==
    /\ orch[r].oracle_task = "running"
    /\ \E outcome \in OracleOutcomes :
         orch' = [orch EXCEPT ![r].oracle_task = outcome,
                              ![r].oracle_value =
                                  IF outcome = "ok" THEN OracleAnswer ELSE NoneV]
    /\ UNCHANGED <<hist, sessVars>>

\* one specialist task ends: _run_agent returns in a step of the event
\* loop of its own, whatever the other tasks do
AgentEnds(r, a, outcome) ==
    /\ orch[r].agent_run[a] = "running"
    /\ orch' = [orch EXCEPT ![r].agent_run[a] = outcome]
    /\ UNCHANGED sessVars

\* a specialist task of a call of predict ends, in any way
AgentSettle(r) ==
    \E a \in Agents, outcome \in AgentOutcomes :
       /\ AgentEnds(r, a, outcome)
       /\ hist' = [hist EXCEPT ![r].out_of_order =
                     @ \/ \E i, j \in 1..Len(AgentOrder) :
                             /\ i < j
                             /\ AgentOrder[j] = a
                             /\ orch[r].agent_run[AgentOrder[i]] = "running"]

\* predict resumed by the gather: collect, vote, should_guess, up to the
\* await of the Oracle task
AfterGather(frame) ==
    LET results == GatherResults(frame.agent_run)
        predictions == CollectPredictions(results)
        voting_result == vote(predictions, frame.clue_number)
    IN  IF \E i \in 1..Len(results) : results[i].res.raised
        THEN [frame EXCEPT !.pc = "raised"]
        ELSE [frame EXCEPT
                 !.pc = "await_oracle",
                 !.predictions = predictions,
                 !.failed_agents = CollectFailed(results),
                 !.voting_result = voting_result,
                 !.should_guess = should_guess(voting_result, frame.clue_number)]

\* await oracle_task on a task that is done (or no task at all), and the
\* OrchestratorResult predict returns
AfterOracle(frame) ==
    LET joined ==
          IF frame.oracle_task = "absent"
          THEN [raised |-> FALSE, value |-> NoneV]
          ELSE AwaitOracle(frame.oracle_task, frame.oracle_value)
    IN  IF joined.raised
        THEN [frame EXCEPT !.pc = "raised"]
        ELSE [frame EXCEPT
                 !.pc = "returned",
                 !.oracle_synthesis = joined.value,
                 !.result =
                     [predictions |-> frame.predictions,
                      voting |-> frame.voting_result,
                      should_guess |-> frame.should_guess.guess,
                      guess_rationale |-> frame.should_guess.rationale,
                      agents_responded |-> Len(frame.predictions),
                      agents_failed |-> frame.failed_agents,
                      oracle_synthesis |-> joined.value]]

\* predict from the gather on, as far as it runs without suspending: the
\* await of an Oracle task that is done, or of none, does not suspend
Resume(frame) ==
    LET voted == AfterGather(frame)
    IN  IF /\ voted.pc = "await_oracle"
           /\ voted.oracle_task # "absent" => OracleTaskDone(voted.oracle_task)
        THEN AfterOracle(voted)
        ELSE voted

\* what is observed when the frame votes
SeenAtVote(r) ==
    [hist[r] EXCEPT
        !.settled_at_vote =
            {a \in Agents : orch[r].agent_run[a] \in AgentSettled},
        !.oracle_at_vote = orch[r].oracle_task]

\* the gather resumes a call of predict
GatherDone(r) ==
    /\ orch[r].pc = "gather"
    /\ AllSettled(orch[r].agent_run)
    /\ orch' = [orch EXCEPT ![r] = Resume(orch[r])]
    /\ hist' = [hist EXCEPT ![r] = SeenAtVote(r)]
    /\ UNCHANGED sessVars

\* the Oracle task resumes a call of predict, which returns
OracleJoin(r) ==
    /\ orch[r].pc = "await_oracle"
    /\ OracleTaskDone(orch[r].oracle_task)
    /\ orch' = [orch EXCEPT ![r] = AfterOracle(orch[r])]
    /\ UNCHANGED <<hist, sessVars>>

(***************************************************************************)
(* routes.py: SessionState                                                 *)
(***************************************************************************)
\* reasoning_accumulator.py ThinkerContext()
NewThinkerContext == [insights |-> <<>>, last_updated |-> 0]

\* in place of NewSession: the SessionState is not given a ThinkerContext
\* of its own by a default factory and starts with one that holds an
\* insight already
NewSessionMut(created_at) ==
    [clues |-> <<>>,
     created_at |-> created_at,
     last_prediction |-> NoneV,
     clue_analyses |-> <<>>,
     hypothesis_tracker |-> <<>>,
     thinker_context |-> [insights |-> <<[clue_number |-> 1,
                                          top_guess |-> StrBowling]>>,
                          last_updated |-> created_at]]

\* SessionState(clues=[], created_at=datetime.now())
NewSession(created_at) ==
    [clues |-> <<>>,
     created_at |-> created_at,
     last_prediction |-> NoneV,
     clue_analyses |-> <<>>,
     hypothesis_tracker |-> <<>>,
     thinker_context |-> NewThinkerContext]

IdleHandler == [pc |-> "idle"]

(***************************************************************************)
(* One call of AgentOrchestrator.predict                                   *)
(***************************************************************************)
\* the clue list of a session that has received n clues
CluesOfLen(n) == [i \in 1..n |-> ClueAt(i)]

InitTurn ==
    /\ orch = [r \in Req |-> IdleFrame]
    /\ hist = [r \in Req |-> IdleHist]
    /\ handler = [r \in Req |-> IdleHandler]
    /\ \E n \in 1..MaxClueNumber :
         session_objs = [s \in {1} |->
                           [NewSession(0) EXCEPT !.clues = CluesOfLen(n)]]
    /\ sessions = {1}
    /\ uuid_count = 1
    /\ calls = 0
    /\ poll_log = NoneV
    /\ reset_log = <<>>
    /\ activity = [s \in {1} |-> 0]
    /\ call = NoneV
    /\ now = 0
    /\ oracle \in [enabled : BOOLEAN]

\* predict(clues, clue_number, prior_analyses=...) is called
PredictCall(r) ==
    /\ r = 1
    /\ orch[r].pc = "idle"
    /\ orch' = [orch EXCEPT ![r] =
                  PredictEnter(1, Len(session_objs[1].clues), oracle.enabled)]
    /\ UNCHANGED <<hist, sessVars>>

NextTurn ==
    \E r \in Req :
      \/ PredictCall(r)
      \/ OracleStart(r)
      \/ OracleSettle(r)
      \/ AgentSettle(r)
      \/ GatherDone(r)
      \/ OracleJoin(r)

SpecTurn == InitTurn /\ [][NextTurn]_vars

(***************************************************************************)
(* Properties of one call of AgentOrchestrator.predict (SpecTurn)          *)
(***************************************************************************)
\* the specialists that answered, in the order of the agents dict
OkAgentsInOrder(r) ==
    SelectSeq(AgentOrder, LAMBDA a : orch[r].agent_run[a] = "ok")

\* the specialists that did not answer
FailedSet(r) == {a \in Agents : orch[r].agent_run[a] # "ok"}

\* the prediction map made of exactly the answers of the specialists that
\* answered
ExpectedPredictions(r) ==
    [i \in 1..Len(OkAgentsInOrder(r)) |->
        [agent |-> OkAgentsInOrder(r)[i],
         pred |-> AgentAnswer[OkAgentsInOrder(r)[i]]]]

SeqToSet(q) == {q[i] : i \in 1..Len(q)}

Voted(r) == orch[r].voting_result # NoneV

Returned(r) == orch[r].pc = "returned"

\* C1: vote runs only after all five specialist tasks have settled, and the
\* prediction map it receives holds exactly the specialists that answered,
\* in the order of the agents dict, whatever the order of completion.
ThmC1 ==
    \A r \in Req :
      Voted(r) =>
        /\ hist[r].settled_at_vote = Agents
        /\ orch[r].predictions = ExpectedPredictions(r)
        /\ orch[r].voting_result =
              vote(ExpectedPredictions(r), orch[r].clue_number)

\* C1 witness: a vote taken after the specialists completed out of dict
\* order, with a failure before a success
WitC1 ==
    /\ Voted(1)
    /\ hist[1].out_of_order
    /\ orch[1].agent_run["lateral"] = "timeout"
    /\ orch[1].agent_run["wildcard"] = "ok"

\* C2: for every set F of failing or timed-out specialists predict returns
\* without raising; agents_failed is F, predictions holds the others with
\* their own answers, the two are disjoint and
\* agents_responded + |agents_failed| = 5.
ThmC2 ==
    \A r \in Req :
      /\ orch[r].pc # "raised"
      /\ Returned(r) =>
           LET res == orch[r].result
               responded == {res.predictions[i].agent :
                                i \in 1..Len(res.predictions)}
           IN  /\ SeqToSet(res.agents_failed) = FailedSet(r)
               /\ Len(res.agents_failed) = Cardinality(FailedSet(r))
               /\ responded = Agents \ FailedSet(r)
               /\ responded \cap SeqToSet(res.agents_failed) = {}
               /\ \A i \in 1..Len(res.predictions) :
                     res.predictions[i].pred =
                         AgentAnswer[res.predictions[i].agent]
               /\ res.agents_responded + Len(res.agents_failed) = NumAgents

\* C2 witness: a returned turn with one timeout, one error, one None and
\* two answers
WitC2 ==
    /\ Returned(1)
    /\ orch[1].agent_run["lateral"] = "timeout"
    /\ orch[1].agent_run["literal"] = "error"
    /\ orch[1].agent_run["wildcard"] = "none"
    /\ orch[1].result.agents_responded = 2

\* C6: the Oracle task exists before any specialist result is collected,
\* it is joined only after vote and should_guess have run, predict returns
\* only after the Oracle task has settled, and the voting result is the
\* vote over the specialists' answers whenever the Oracle completed.
ThmC6 ==
    \A r \in Req :
      LET f == orch[r] IN
      /\ (f.oracle_enabled /\ \E a \in Agents : f.agent_run[a] # "idle")
            => f.oracle_task # "absent"
      /\ (f.oracle_synthesis # NoneV \/ f.result # NoneV)
            => (f.voting_result # NoneV /\ f.should_guess # NoneV)
      /\ (Returned(r) /\ f.oracle_enabled) => f.oracle_task \in OracleOutcomes
      /\ Returned(r) =>
            f.result.voting = vote(ExpectedPredictions(r), f.clue_number)

\* C6 witness: the Oracle was still running when the vote was taken and
\* its synthesis is in the returned result
WitC6 ==
    /\ Returned(1)
    /\ hist[1].oracle_at_vote = "running"
    /\ orch[1].result.oracle_synthesis = OracleAnswer

\* C8: when the Oracle call fails, times out or the Oracle is disabled,
\* predict still returns: oracle_synthesis is None, the recommended pick is
\* the one of the vote, and predictions, agents_responded and agents_failed
\* are those of the specialists; nothing is raised.
ThmC8 ==
    \A r \in Req :
      /\ orch[r].pc # "raised"
      /\ (orch[r].pc \in {"await_oracle", "returned"}
            /\ orch[r].oracle_task \in {"none", "timeout"})
           => orch[r].voting_result =
                 vote(ExpectedPredictions(r), orch[r].clue_number)
      /\ (Returned(r) /\ orch[r].oracle_task \in {"absent", "none", "timeout"})
           => LET res == orch[r].result
              IN  /\ res.oracle_synthesis = NoneV
                  /\ res.voting.recommended_pick =
                        vote(ExpectedPredictions(r),
                             orch[r].clue_number).recommended_pick
                  /\ res.predictions = ExpectedPredictions(r)
                  /\ res.agents_responded = Len(OkAgentsInOrder(r))
                  /\ SeqToSet(res.agents_failed) = FailedSet(r)

\* C8 witness: a returned turn whose Oracle call timed out while two
\* specialists answered
WitC8 ==
    /\ Returned(1)
    /\ orch[1].oracle_task = "timeout"
    /\ orch[1].result.agents_responded = 2
    /\ orch[1].result.voting.recommended_pick = StrBowling

\* the prediction maps with no present prediction: some agents, all None
AllNoneMaps ==
    {[i \in 1..k |-> [agent |-> AgentOrder[i], pred |-> NoneV]] :
        k \in 0..Len(AgentOrder)}

\* C9: for every turn number vote on a map with no present prediction gives
\* pick "Unknown", agreement "none", confidence 0 and no cluster; a turn in
\* which all five specialists fail returns that result with
\* agents_responded = 0.
ThmC9 ==
    \A r \in Req :
          (Returned(r) /\ FailedSet(r) = Agents) =>
             /\ \A m \in AllNoneMaps :
                   LET v == vote(m, orch[r].clue_number)
                   IN  /\ v.recommended_pick = StrUnknown
                       /\ v.agreement_strength = "none"
                       /\ v.recommended_confidence = FromInt(0)
                       /\ v.vote_breakdown = <<>>
             /\ orch[r].result.voting.recommended_pick = StrUnknown
             /\ orch[r].result.voting.agreement_strength = "none"
             /\ orch[r].result.voting.recommended_confidence = FromInt(0)
             /\ orch[r].result.voting.vote_breakdown = <<>>
             /\ orch[r].result.agents_responded = 0

\* C9 witness: a returned turn in which all five specialists timed out
WitC9 ==
    /\ Returned(1)
    /\ \A a \in Agents : orch[1].agent_run[a] = "timeout"
    /\ orch[1].result.agents_responded = 0
    /\ orch[1].result.agents_failed = AgentOrder

(***************************************************************************)
(* reasoning_accumulator.py                                                *)
(***************************************************************************)

\* in place of get_for_clue: no insight ever found
get_for_clueMut(thinker_context, clue_number) == NoneV

\* ThinkerContext.get_for_clue: the first insight of that clue number
get_for_clue(thinker_context, clue_number) ==
    LET ins == thinker_context.insights
        hits == {i \in 1..Len(ins) : ins[i].clue_number = clue_number}
    IN  IF hits = {} THEN NoneV
        ELSE ins[CHOOSE i \in hits : \A j \in hits : i <= j]

\* in place of get_prior_insight: the latest insight, of whatever clue
get_prior_insightMut(thinker_context, current_clue) ==
    IF thinker_context.insights = <<>> THEN NoneV
    ELSE thinker_context.insights[Len(thinker_context.insights)]

\* ThinkerContext.get_prior_insight
get_prior_insight(thinker_context, current_clue) ==
    get_for_clue(thinker_context, current_clue - 1)

\* ThinkerContext.add_insight
add_insight(thinker_context, insight, time) ==
    [insights |-> Append(thinker_context.insights, insight),
     last_updated |-> time]

\* int(confidence * 100)
IntPct(confidence) == FTrunc(FMulInt(PctFloat[confidence], 100))

\* the AgentSnapshot list of create_clue_analysis
RECURSIVE Snapshots(_)
Snapshots(predictions) ==
    IF predictions = <<>> THEN <<>>
    ELSE IF Head(predictions).pred = NoneV
         THEN Snapshots(Tail(predictions))
         ELSE <<[agent_name |-> Head(predictions).agent,
                 answer |-> Head(predictions).pred.answer,
                 confidence |-> Head(predictions).pred.confidence,
                 insight |-> Prefix(Head(predictions).pred.reasoning, 50)]>>
              \o Snapshots(Tail(predictions))

\* ReasoningAccumulator.create_clue_analysis
create_clue_analysis(clue_number, clue_text, predictions, voting_result, prior_analyses, time) ==
    LET vb == voting_result.vote_breakdown
        has_top == vb # <<>>
        has_alt == Len(vb) > 1
        prior_top_conf ==
            IF prior_analyses # <<>>
            THEN prior_analyses[Len(prior_analyses)].top_confidence
            ELSE FZero
        current_conf == IF has_top THEN vb[1].avg_confidence ELSE FZero
    IN  [clue_number |-> clue_number,
         clue_text |-> clue_text,
         top_answer |-> IF has_top THEN vb[1].answer ELSE StrUnknown,
         top_confidence |-> current_conf,
         top_agents |-> IF has_top THEN vb[1].agents ELSE <<>>,
         alt_answer |-> IF has_alt THEN <<vb[2].answer>> ELSE <<>>,
         alt_confidence |-> IF has_alt THEN <<vb[2].avg_confidence>> ELSE <<>>,
         alt_agents |-> IF has_alt THEN vb[2].agents ELSE <<>>,
         confidence_delta |-> FSub(current_conf, prior_top_conf),
         agent_snapshots |-> Snapshots(predictions),
         agreement_strength |-> voting_result.agreement_strength,
         oracle_synthesis |-> NoneV,
         analyzed_at |-> time]

\* f"{delta*100:.0f}" of a float that may be negative
RoundSigned(delta) ==
    IF delta.neg THEN -RoundPct(delta.mag) ELSE RoundPct(delta.mag)

\* delta > limit and delta < -limit for a float limit >= 0
Above(delta, limit) == ~delta.neg /\ FGt(delta.mag, limit)
Below(delta, limit) == delta.neg /\ FGt(delta.mag, limit)

\* _format_trend
format_trend(delta) ==
    IF Above(delta, PctFloat[5]) THEN <<"+", RoundSigned(delta)>>
    ELSE IF Below(delta, PctFloat[5]) THEN <<"", RoundSigned(delta)>>
    ELSE IF delta.mag = FZero THEN <<"NEW">>
    ELSE <<"stable">>

\* _summarize_evolution
summarize_evolution(analyses) ==
    LET first == analyses[1]
        last == analyses[Len(analyses)]
        delta == FSub(last.top_confidence, first.top_confidence)
    IN  IF Lower(first.top_answer) = Lower(last.top_answer)
        THEN IF Above(delta, PctFloat[10])
             THEN <<"strengthening", first.top_answer, RoundSigned(delta),
                    Len(analyses)>>
             ELSE IF Below(delta, PctFloat[10])
             THEN <<"weakening", first.top_answer, RoundSigned(delta),
                    Len(analyses)>>
             ELSE <<"holding steady", first.top_answer, Len(analyses)>>
        ELSE <<"Shifted", first.top_answer, last.top_answer>>

\* insight.replace('"', "'")
ReplaceQuotes(s) == [i \in 1..Len(s) |-> IF s[i] = "\"" THEN "'" ELSE s[i]]

\* the lines of the Thinker block of generate_context_injection
ThinkerBlock(thinker_context, current_clue_number) ==
    LET prior_insight == get_prior_insight(thinker_context, current_clue_number)
    IN  IF prior_insight = NoneV THEN <<>>
        ELSE << <<"=== DEEP ANALYSIS (from prior clue) ===">>,
                <<"Top Hypothesis", prior_insight.top_guess,
                  prior_insight.confidence>>,
                <<"Reasoning", Prefix(prior_insight.hypothesis_reasoning, 300)>> >>
             \o (IF prior_insight.key_patterns # <<>>
                 THEN << <<"Patterns", Prefix(prior_insight.key_patterns, 3)>> >>
                 ELSE <<>>)
             \o (IF prior_insight.wordplay_analysis # <<>>
                 THEN << <<"Wordplay", prior_insight.wordplay_analysis>> >>
                 ELSE <<>>)
             \o << <<"Narrative", prior_insight.narrative_arc>>, <<"">> >>

\* in place of ClueHeader: the header line carries the time of the analysis
ClueHeaderMut(analysis) ==
    <<"=== CLUE", analysis.clue_number, analysis.clue_text,
      analysis.analyzed_at>>

\* f"=== CLUE {analysis.clue_number}: \"{analysis.clue_text}\" ==="
ClueHeader(analysis) ==
    <<"=== CLUE", analysis.clue_number, analysis.clue_text>>

\* the lines written for one ClueAnalysis
AnalysisLines(analysis) ==
    << ClueHeader(analysis) >>
    \o [i \in 1..Len(analysis.agent_snapshots) |->
          LET snapshot == analysis.agent_snapshots[i]
          IN  <<"snapshot", snapshot.agent_name, snapshot.answer,
                IntPct(snapshot.confidence),
                Prefix(ReplaceQuotes(snapshot.insight), 40)>>]
    \o << <<">> VOTE", analysis.top_answer, Len(analysis.top_agents),
            analysis.agreement_strength,
            format_trend(analysis.confidence_delta)>> >>
    \o (IF analysis.oracle_synthesis # NoneV
           /\ analysis.oracle_synthesis.top_3 # <<>>
        THEN << <<">> ORACLE", analysis.oracle_synthesis.top_3[1].answer,
                  analysis.oracle_synthesis.top_3[1].confidence,
                  analysis.oracle_synthesis.key_theme>> >>
        ELSE <<>>)
    \o << <<"">> >>

RECURSIVE AllAnalysisLines(_)
AllAnalysisLines(analyses) ==
    IF analyses = <<>> THEN <<>>
    ELSE AnalysisLines(Head(analyses)) \o AllAnalysisLines(Tail(analyses))

\* ReasoningAccumulator.generate_context_injection (full_predictions=True):
\* the returned string as the sequence of its lines
generate_context_injection(analyses, current_clue_number, thinker_context) ==
    LET lines == ThinkerBlock(thinker_context, current_clue_number)
    IN  IF analyses = <<>> THEN lines
        ELSE lines
             \o << <<"PRIOR ANALYSIS:">>, <<"">> >>
             \o AllAnalysisLines(analyses)
             \o (IF Len(analyses) >= 2
                 THEN << <<"TREND", summarize_evolution(analyses)>>, <<"">> >>
                 ELSE <<>>)

\* dict update of update_hypothesis_tracker: tracker[key].append(value)
TrackerAppend(tracker, key, value) ==
    IF \E i \in 1..Len(tracker) : tracker[i].key = key
    THEN [i \in 1..Len(tracker) |->
            IF tracker[i].key = key
            THEN [tracker[i] EXCEPT !.history = Append(@, value)]
            ELSE tracker[i]]
    ELSE Append(tracker, [key |-> key, history |-> <<value>>])

\* ReasoningAccumulator.update_hypothesis_tracker
update_hypothesis_tracker(tracker, analysis) ==
    LET t1 == TrackerAppend(tracker, Lower(analysis.top_answer),
                            analysis.top_confidence)
    IN  IF /\ analysis.alt_answer # <<>>
           /\ analysis.alt_answer[1] # <<>>
           /\ analysis.alt_confidence[1] # FZero
        THEN TrackerAppend(t1, Lower(analysis.alt_answer[1]),
                           analysis.alt_confidence[1])
        ELSE t1

(***************************************************************************)
(* The specialist outcomes of the turns that are drawn as inputs           *)
(***************************************************************************)
\* the specialist outcomes of a turn: those in ok answer, the others time
\* out
ScenarioOf(ok) == [a \in Agents |-> IF a \in ok THEN "ok" ELSE "timeout"]
Scenarios == {ScenarioOf({}), ScenarioOf({"literal", "wildcard"})}

\* a specialist task of a call of predict ends, in a turn whose outcomes
\* are those of one of the scenarios: the tasks end one at a time, in any
\* order
AgentSettleIn(r, scenarios) ==
    /\ \E a \in Agents, sc \in scenarios :
         /\ \A b \in Agents : orch[r].agent_run[b] \in {"running", sc[b]}
         /\ AgentEnds(r, a, sc[a])
    /\ UNCHANGED hist

(***************************************************************************)
(* routes.py: the session store                                            *)
(***************************************************************************)
SESSION_EXPIRY_MINUTES == 5

\* minutes on the clock, the minutes between two readings of it, and the
\* turn numbers a poll may name
MaxTime == 6
TickMinutes == 3
MaxPollClue == 1

\* session ids drawn from uuid4(), clues per session and submits in the
\* runs of each specification
MaxIds == 4
MaxClues == 2
MaxCalls == 3
MaxExpiryIds == 3
MaxExpiryClues == 1
MaxStaleIds == 3
MaxStaleClues == 2
MaxCapIds == 3
MaxCapClues == 6
MaxCapCalls == 7
MaxConcurrentIds == 3
MaxConcurrentClues == 3
MaxConcurrentCalls == 4

\* the client of the runs with one client
SerialReq == {1}

\* the clue a client sends as the clue at position n of a session: the two
\* clients never send the same text for the same position
ClueOf(r, n) == IF r = 1 THEN ClueAt(n) ELSE ClueAt(n + 1)

\* cleanup_expired_sessions: the keys left in _sessions
cleanup_expired_sessions(ids, objs, time) ==
    {s \in ids : ~(time - objs[s].created_at > SESSION_EXPIRY_MINUTES)}

\* get_or_create_session(session_id); session_id 0 is None
get_or_create_session(session_id) ==
    LET kept == cleanup_expired_sessions(sessions, session_objs, now)
        new_session_id == uuid_count + 1
    IN  IF session_id = 0 \/ session_id \notin kept
        THEN [sessions |-> kept \cup {new_session_id},
              objs |-> [s \in DOMAIN session_objs \cup {new_session_id} |->
                          IF s = new_session_id THEN NewSession(now)
                          ELSE session_objs[s]],
              uuid_count |-> new_session_id,
              session_id |-> new_session_id,
              is_new |-> TRUE]
        ELSE [sessions |-> kept,
              objs |-> [session_objs EXCEPT ![session_id].created_at = now],
              uuid_count |-> uuid_count,
              session_id |-> session_id,
              is_new |-> FALSE]

\* the SessionState objects still referenced by _sessions; the others are
\* garbage
Reachable(objs, ids) == [s \in DOMAIN objs \cap ids |-> objs[s]]

\* in place of ClueNumberOf: the length read before the clue was appended
ClueNumberOfMut(clues) == IF Len(clues) > 1 THEN Len(clues) - 1 ELSE 1

\* in place of ClueNumberOf: every turn numbered 1
ClueNumberOfFirst(clues) == 1

\* routes.predict: clue_number = len(session_state.clues)
ClueNumberOf(clues) == Len(clues)

\* in place of AttachOracle: the synthesis of the turn is dropped
AttachOracleMut(clue_analysis, oracle_synthesis) == clue_analysis

\* routes.predict: if result.oracle_synthesis:
\*     clue_analysis.oracle_synthesis = result.oracle_synthesis
AttachOracle(clue_analysis, oracle_synthesis) ==
    IF oracle_synthesis # NoneV
    THEN [clue_analysis EXCEPT !.oracle_synthesis = oracle_synthesis]
    ELSE clue_analysis

\* routes.predict from the return of orchestrator.predict to its own
\* return, what it writes to the session: last_prediction takes the
\* recommended pick of the vote; then the block that stores the analysis
\* of the turn: create_clue_analysis, the Oracle synthesis attached, the
\* analysis appended to the session, update_hypothesis_tracker
StoreAnalysis(state, clue_number, clue_text, result, time) ==
    LET clue_analysis ==
            AttachOracle(
                create_clue_analysis(clue_number, clue_text,
                    result.predictions, result.voting, state.clue_analyses,
                    time),
                result.oracle_synthesis)
    IN  [state EXCEPT
            !.last_prediction = result.voting.recommended_pick,
            !.clue_analyses = Append(@, clue_analysis),
            !.hypothesis_tracker =
                update_hypothesis_tracker(@, clue_analysis)]

\* models.py: the fields of a ClueRequest
ClueRequestFields == {"clue_text", "session_id"}

\* orchestrator.py: the parameters of AgentOrchestrator.predict
PredictParameters ==
    {"clues", "clue_number", "category_hint", "prior_context",
     "prior_analyses"}

\* routes.predict: the keyword arguments of its call of orchestrator.predict
PredictKeywords ==
    {"clues", "clue_number", "category_hint", "prior_context",
     "prior_analyses", "theme", "session_id", "thinker_context"}

\* routes.predict, the call of orchestrator.predict: the arguments are
\* evaluated in order and theme=request.theme raises AttributeError, a
\* ClueRequest having no such field; were it there, the call would raise
\* TypeError for the keywords that predict does not take.  Either way the
\* coroutine is never entered and nothing is awaited.
PredictCallRaises ==
    IF "theme" \notin ClueRequestFields THEN "AttributeError"
    ELSE IF ~(PredictKeywords \subseteq PredictParameters) THEN "TypeError"
    ELSE "no"

\* routes.predict, the whole handler: get_or_create_session, the clue
\* appended, the turn number read, the context built when the session has
\* analyses or insights (it has none), the call of orchestrator.predict,
\* which raises while its arguments are evaluated, and the except clause,
\* which answers 500.  The handler has no suspension point on this path,
\* so the event loop runs it in one step.
SubmitEnter(r, max_clues, max_calls, max_ids) ==
    /\ calls < max_calls
    /\ PredictCallRaises # "no"
    /\ calls' = calls + 1
    /\ \E request_sid \in 0..uuid_count :
         LET g == get_or_create_session(request_sid)
             sid == g.session_id
             clue_text == ClueOf(r, Len(g.objs[sid].clues) + 1)
             state == [g.objs[sid] EXCEPT !.clues = Append(@, clue_text)]
             clue_number == ClueNumberOf(state.clues)
         IN  /\ g.uuid_count <= max_ids
             /\ Len(state.clues) <= max_clues
             /\ sessions' = g.sessions
             /\ uuid_count' = g.uuid_count
             /\ activity' = [s \in g.sessions |->
                                IF s = sid THEN now ELSE activity[s]]
             /\ session_objs' =
                   Reachable([g.objs EXCEPT ![sid] = state], g.sessions)
             /\ handler' = [handler EXCEPT ![r] =
                   [pc |-> "idle",
                    status |-> 500,
                    detail |-> PredictCallRaises,
                    request_no |-> calls + 1,
                    request_sid |-> request_sid,
                    session_id |-> sid,
                    clue_text |-> clue_text,
                    clue_number |-> clue_number]]
    /\ UNCHANGED <<orchVars, poll_log, reset_log, call, now, oracle>>

\* a submit_clue request of client r
SubmitStart(r, max_clues, max_calls, max_ids) ==
    SubmitEnter(r, max_clues, max_calls, max_ids)

\* in place of PopSession: the named session is left in the store
PopSessionMut(ids, request_sid) == ids

\* routes.reset: if request.session_id and request.session_id in _sessions:
\*     _sessions.pop(request.session_id)          (0 stands for no id)
PopSession(ids, request_sid) == ids \ {request_sid}

\* routes.reset; reset_log keeps, for each reset served, its request, the
\* id it returned, whether the named id was in the store, and the other
\* sessions that were in the store holding a clue
Reset(max_ids) ==
    \E request_sid \in 0..uuid_count :
      LET new_session_id == uuid_count + 1
      IN  /\ new_session_id <= max_ids
          /\ sessions' = PopSession(sessions, request_sid) \cup {new_session_id}
          /\ session_objs' =
                Reachable([s \in DOMAIN session_objs \cup {new_session_id} |->
                              IF s = new_session_id THEN NewSession(now)
                              ELSE session_objs[s]],
                          sessions')
          /\ uuid_count' = new_session_id
          /\ reset_log' = Append(reset_log,
                            [request_sid |-> request_sid,
                             session_id |-> new_session_id,
                             found |-> request_sid \in sessions,
                             others |-> {s \in sessions \ {request_sid} :
                                           session_objs[s].clues # <<>>}])
          /\ activity' = [s \in sessions' |->
                             IF s = new_session_id THEN now ELSE activity[s]]
          /\ UNCHANGED <<orchVars, handler, calls, poll_log, call, now,
                         oracle>>

\* the Thinker's result for a turn: a ThinkerInsight
ThinkerInsightOf(clue_number) ==
    [clue_number |-> clue_number,
     top_guess |-> StrBowling,
     confidence |-> 70 + clue_number,
     hypothesis_reasoning |-> StrStrike,
     key_patterns |-> <<StrPins>>,
     refined_guesses |-> <<>>,
     narrative_arc |-> StrGame,
     wordplay_analysis |-> <<>>,
     latency_ms |-> 4000 + clue_number,
     completed |-> TRUE]

\* routes.get_thinker_status: orchestrator.get_thinker_status(session_id,
\* clue_number); AgentOrchestrator has the methods _init_agents,
\* _run_agent, predict and close, and the lookup raises AttributeError
orchestrator_get_thinker_status(session_id, clue_number) ==
    [raised |-> "AttributeError", value |-> NoneV]

\* routes.get_thinker_status: existing = get_for_clue(clue_number);
\* if not existing: add_insight(insight)
MergeInsight(thinker_context, clue_number, insight, time) ==
    IF get_for_clue(thinker_context, clue_number) = NoneV
    THEN add_insight(thinker_context, insight, time)
    ELSE thinker_context

\* models.py: the classes it defines
ApiModels ==
    {"EntityCategory", "ClueRequest", "SemanticMatch", "Prediction",
     "GuessRecommendation", "AgentPrediction", "VoteBreakdown",
     "VotingResult", "OracleGuess", "OracleSynthesis", "PredictionResponse",
     "ResetRequest", "ResetResponse", "ValidationRequest",
     "ValidationResponse", "HealthResponse", "ErrorResponse",
     "FeedbackRequest", "FeedbackResponse"}

\* routes.py takes its response classes from app.api.models, ThinkerInsight
\* (as APIThinkerInsight) and ThinkerStatus (as APIThinkerStatus) among
\* them; models.py defines neither, the two names are bound to nothing in
\* routes, and a statement that reads one raises NameError
ApiNameRaises(name) == IF name \in ApiModels THEN "no" ELSE "NameError"

\* routes.get_thinker_status(session_id, clue_number), the whole handler.
\* The try block: the call of the orchestrator; when the status carries an
\* insight, APIThinkerInsight(...) and then the merge into the session
\* when the id is in the store; return APIThinkerStatus(...).  The except
\* clause returns APIThinkerStatus(pending=False, completed=False,
\* insight=None), and what that statement raises leaves the handler: the
\* poll gets no answer of the handler.  poll_log keeps the last poll, the
\* exception that left the handler and the answer.
Poll ==
    \E request_sid \in 1..uuid_count, clue_number \in 1..MaxPollClue :
      \E status_result \in
            {orchestrator_get_thinker_status(request_sid, clue_number)} :
        LET with_insight ==
                /\ status_result.raised = "no"
                /\ status_result.value.insight # NoneV
            merged ==
                IF with_insight /\ request_sid \in sessions
                THEN [session_objs EXCEPT
                        ![request_sid].thinker_context =
                            MergeInsight(@, clue_number,
                                status_result.value.insight, now)]
                ELSE session_objs
            try ==
                IF status_result.raised # "no"
                THEN [raised |-> status_result.raised, objs |-> session_objs,
                      answer |-> NoneV]
                ELSE IF with_insight /\ ApiNameRaises("ThinkerInsight") # "no"
                THEN [raised |-> ApiNameRaises("ThinkerInsight"),
                      objs |-> session_objs, answer |-> NoneV]
                ELSE IF ApiNameRaises("ThinkerStatus") # "no"
                THEN [raised |-> ApiNameRaises("ThinkerStatus"),
                      objs |-> merged, answer |-> NoneV]
                ELSE [raised |-> "no", objs |-> merged,
                      answer |-> [pending |-> status_result.value.pending,
                                  completed |-> status_result.value.completed,
                                  insight |-> status_result.value.insight]]
            handled ==
                IF try.raised = "no" THEN try
                ELSE IF ApiNameRaises("ThinkerStatus") # "no"
                THEN [try EXCEPT !.raised = ApiNameRaises("ThinkerStatus")]
                ELSE [try EXCEPT
                        !.raised = "no",
                        !.answer = [pending |-> FALSE, completed |-> FALSE,
                                    insight |-> NoneV]]
        IN  /\ session_objs' = handled.objs
            /\ poll_log' = [session_id |-> request_sid,
                            clue_number |-> clue_number,
                            raised |-> handled.raised,
                            answer |-> handled.answer]
            /\ activity' = [s \in sessions |->
                               IF s = request_sid THEN now ELSE activity[s]]
            /\ UNCHANGED <<orchVars, handler, sessions, uuid_count, calls,
                           reset_log, call, now, oracle>>

\* time passes: datetime.now() is TickMinutes later at its next reading
Tick ==
    /\ now + TickMinutes <= MaxTime
    /\ now' = now + TickMinutes
    /\ UNCHANGED <<orchVars, handler, session_objs, sessions, uuid_count,
                   calls, poll_log, reset_log, activity, call, oracle>>

\* routes.health: the expiry sweep
Health ==
    /\ sessions' = cleanup_expired_sessions(sessions, session_objs, now)
    /\ session_objs' = Reachable(session_objs, sessions')
    /\ activity' = [s \in sessions' |-> activity[s]]
    /\ UNCHANGED <<orchVars, handler, uuid_count, calls, poll_log, reset_log,
                   call, now, oracle>>

\* the server after start-up: no session, no request
InitServer ==
    /\ orch = [r \in Req |-> IdleFrame]
    /\ hist = [r \in Req |-> IdleHist]
    /\ handler = [r \in Req |-> IdleHandler]
    /\ session_objs = <<>>
    /\ sessions = {}
    /\ uuid_count = 0
    /\ calls = 0
    /\ poll_log = NoneV
    /\ reset_log = <<>>
    /\ activity = <<>>
    /\ now = 0

InitStore ==
    /\ InitServer
    /\ call = NoneV

(***************************************************************************)
(* Spec: submits and resets of one client, within a minute                 *)
(***************************************************************************)
\* the server specifications never reach the Oracle; it is left disabled
Init ==
    /\ InitStore
    /\ oracle = [enabled |-> FALSE]

Next ==
    \/ \E r \in SerialReq : SubmitStart(r, MaxClues, MaxCalls, MaxIds)
    \/ Reset(MaxIds)

Spec == Init /\ [][Next]_vars

(***************************************************************************)
(* SpecExpiry: submits, polls and resets, the clock and the expiry sweep   *)
(***************************************************************************)
NextExpiry ==
    \/ \E r \in SerialReq :
           SubmitStart(r, MaxExpiryClues, MaxExpiryClues, MaxExpiryIds)
    \/ Poll
    \/ Reset(MaxExpiryIds)
    \/ Tick
    \/ Health

SpecExpiry == Init /\ [][NextExpiry]_vars

(***************************************************************************)
(* SpecStale: submits that may name a session of some minutes ago, the     *)
(* clock, the expiry sweep and the resets; no polls                        *)
(***************************************************************************)
NextStale ==
    \/ \E r \in SerialReq :
           SubmitStart(r, MaxStaleClues, MaxStaleClues, MaxStaleIds)
    \/ Tick
    \/ Health
    \/ Reset(MaxStaleIds)

SpecStale == Init /\ [][NextStale]_vars

(***************************************************************************)
(* SpecCap: sessions that keep receiving clues                             *)
(***************************************************************************)
NextCap ==
    \/ \E r \in SerialReq : SubmitStart(r, MaxCapClues, MaxCapCalls, MaxCapIds)
    \/ Reset(MaxCapIds)

SpecCap == Init /\ [][NextCap]_vars

(***************************************************************************)
(* SpecConcurrent: two clients that send clues without waiting for each    *)
(* other, also for the same session                                        *)
(***************************************************************************)
NextConcurrent ==
    \E r \in Req :
        SubmitStart(r, MaxConcurrentClues, MaxConcurrentCalls,
                    MaxConcurrentIds)

SpecConcurrent == Init /\ [][NextConcurrent]_vars

(***************************************************************************)
(* The polls and the sessions that are gone                                *)
(***************************************************************************)
\* the clue numbers of the insights of a ThinkerContext, in list order
InsightClues(thinker_context) ==
    [i \in 1..Len(thinker_context.insights) |->
        thinker_context.insights[i].clue_number]

\* the session's idle time has passed the expiry time
Expired(s) == now - session_objs[s].created_at > SESSION_EXPIRY_MINUTES

(* The size of a session                                                   *)
(***************************************************************************)
\* C10: a session never holds more than 5 clues nor more than 5 analyses,
\* its clue count never decreases, and a submit on a session that holds 5
\* clues leaves the clue list as it is.
CexC10 ==
    [][\A s \in DOMAIN session_objs' :
          /\ Len(session_objs'[s].clues) <= 5
          /\ Len(session_objs'[s].clue_analyses) <= 5
          /\ s \in DOMAIN session_objs =>
                /\ Len(session_objs'[s].clues) >= Len(session_objs[s].clues)
                /\ Len(session_objs[s].clues) = 5 =>
                      session_objs'[s].clues = session_objs[s].clues]_vars

(***************************************************************************)
(* The expiry window and the activity on a session                         *)
(***************************************************************************)
\* the 5-minute window of live session s, counted from its last submit or
\* poll, has elapsed
WindowElapsed(s) == now - activity[s] > SESSION_EXPIRY_MINUTES

\* this step is a submit of client r that names session s
SubmitNaming(r, s) ==
    /\ calls' = calls + 1
    /\ handler'[r].pc = "idle"
    /\ "request_no" \in DOMAIN handler'[r]
    /\ handler'[r].request_no = calls'
    /\ handler'[r].request_sid = s

\* C11: a session is removed by expiry only when more than 5 minutes have
\* passed since its last submit or poll, and a submit that names a session
\* whose window has elapsed does not resume that session.
CexC11 ==
    [][/\ \A s \in sessions \ sessions' :
            (\A i \in 1..Len(reset_log') :
                 ~(i > Len(reset_log) /\ reset_log'[i].request_sid = s))
               => WindowElapsed(s)
       /\ \A r \in Req : \A s \in sessions :
            (SubmitNaming(r, s) /\ WindowElapsed(s))
                => handler'[r].session_id # s]_vars

(***************************************************************************)
(* A submit that names a session that is gone                              *)
(***************************************************************************)
\* client r has been answered for a submit that named a session id which
\* was not in the store when the request arrived (the session had expired
\* or been reset)
AnsweredForDeadSession(r) ==
    /\ handler[r].pc = "idle"
    /\ "status" \in DOMAIN handler[r]
    /\ handler[r].request_sid # 0

(***************************************************************************)
(* Reset                                                                   *)
(***************************************************************************)
\* this step is a reset
ResetStep == Len(reset_log') = Len(reset_log) + 1

\* a session that holds nothing
EmptySession(state) ==
    /\ state.clues = <<>>
    /\ state.clue_analyses = <<>>
    /\ state.hypothesis_tracker = <<>>
    /\ state.thinker_context.insights = <<>>
    /\ state.last_prediction = NoneV

\* C14: a reset removes the session it names from the store and returns the
\* id of a new session, different from every id in use, whose state is
\* empty; every other session stays in the store with its state unchanged;
\* a reset that names no session, or one that is not in the store, still
\* returns a new empty session.
ThmC14 ==
    [][ResetStep =>
         LET named == reset_log'[Len(reset_log')].request_sid
             new_id == reset_log'[Len(reset_log')].session_id
         IN  /\ new_id \notin sessions
             /\ new_id \notin DOMAIN session_objs
             /\ new_id > uuid_count
             /\ new_id \in sessions'
             /\ EmptySession(session_objs'[new_id])
             /\ named \notin sessions'
             /\ named \notin DOMAIN session_objs'
             /\ sessions' = (sessions \ {named}) \cup {new_id}
             /\ \A s \in sessions \ {named} :
                   session_objs'[s] = session_objs[s]]_vars

\* three resets have been served: one that named no session, one that
\* named a session of the store while another session held a clue, and
\* one that named an id no longer in the store, each while a session that
\* held a clue stayed in the store
WitC14 ==
    /\ \E i \in 1..Len(reset_log) :
          reset_log[i].request_sid = 0 /\ reset_log[i].others # {}
    /\ \E i \in 1..Len(reset_log) :
          /\ reset_log[i].found
          /\ reset_log[i].others # {}
          /\ reset_log[i].request_sid \notin sessions
    /\ \E i \in 1..Len(reset_log) :
          /\ reset_log[i].request_sid # 0
          /\ ~reset_log[i].found
          /\ reset_log[i].others # {}
    /\ \E s \in sessions : session_objs[s].clues # <<>>

(***************************************************************************)
(* SpecContext: generate_context_injection on the analyses and the         *)
(* ThinkerContext of one session, built turn by turn and merge by merge    *)
(***************************************************************************)
\* the first line of the Thinker block of a context
StrDeepHeader == "=== DEEP ANALYSIS (from prior clue) ==="

\* other readings of the clock and of the latency counters
Stamps == {7, 8}

\* the analyses with every wall-clock and latency field set to t
RestampAnalyses(analyses, t) ==
    [i \in 1..Len(analyses) |->
        [analyses[i] EXCEPT
            !.analyzed_at = t,
            !.oracle_synthesis =
                IF @ = NoneV THEN @ ELSE [@ EXCEPT !.latency_ms = t]]]

\* the ThinkerContext with every wall-clock and latency field set to t
RestampContext(thinker_context, t) ==
    [insights |->
        [i \in 1..Len(thinker_context.insights) |->
            [thinker_context.insights[i] EXCEPT !.latency_ms = t]],
     last_updated |-> t]

\* turns of the session whose context is built
MaxContextTurns == 2

\* the minutes at which a turn is analysed or an insight is stored
ContextTimes == {0, 3}

\* built_from is the ThinkerContext as it was when the context was built
InitContext ==
    /\ InitServer
    /\ oracle = [enabled |-> TRUE]
    /\ call = [stage |-> "building", clue_analyses |-> <<>>,
               thinker_context |-> NewThinkerContext,
               current_clue_number |-> 0, context |-> <<>>,
               built_from |-> NewThinkerContext]

\* the result of orchestrator.predict for a turn in which the specialists
\* end as in scenario and the Oracle returns synthesis
ResultOf(scenario, synthesis, clue_number) ==
    LET predictions == CollectPredictions(GatherResults(scenario))
    IN  [predictions |-> predictions,
         voting |-> vote(predictions, clue_number),
         oracle_synthesis |-> synthesis]

\* one turn of routes.predict as the accumulator sees it: the vote of the
\* turn, create_clue_analysis, the Oracle synthesis attached when there is
\* one, the analysis appended
ContextTurn ==
    /\ call.stage = "building"
    /\ Len(call.clue_analyses) < MaxContextTurns
    /\ \E scenario \in Scenarios, synthesis \in {NoneV, OracleAnswer},
          time \in ContextTimes :
         LET clue_number == Len(call.clue_analyses) + 1
             stored ==
                 StoreAnalysis(
                     [last_prediction |-> NoneV,
                      clue_analyses |-> call.clue_analyses,
                      hypothesis_tracker |-> <<>>],
                     clue_number, ClueAt(clue_number),
                     ResultOf(scenario, synthesis, clue_number), time)
         IN  call' = [call EXCEPT !.clue_analyses = stored.clue_analyses]
    /\ UNCHANGED serverVars

\* routes.get_thinker_status, the merge: the insight of a status is added
\* when the ThinkerContext has none for the clue; the status polled for a
\* clue carries the insight of that clue
ContextInsight ==
    /\ call.stage = "building"
    /\ \E clue_number \in 1..MaxContextTurns, time \in ContextTimes :
         /\ get_for_clue(call.thinker_context, clue_number) = NoneV
         /\ call' = [call EXCEPT
                        !.thinker_context =
                            MergeInsight(@, clue_number,
                                ThinkerInsightOf(clue_number), time)]
    /\ UNCHANGED serverVars

\* generate_context_injection called on the session for a turn
ContextInject ==
    /\ call.stage = "building"
    /\ \E current_clue_number \in 1..(Len(call.clue_analyses) + 1) :
         call' = [call EXCEPT
                     !.stage = "injected",
                     !.current_clue_number = current_clue_number,
                     !.built_from = call.thinker_context,
                     !.context =
                         generate_context_injection(call.clue_analyses,
                             current_clue_number, call.thinker_context)]
    /\ UNCHANGED serverVars

\* an insight is merged once the context of the turn has been built
ContextInsightLater ==
    /\ call.stage = "injected"
    /\ \E clue_number \in 1..MaxContextTurns, time \in ContextTimes :
         /\ get_for_clue(call.thinker_context, clue_number) = NoneV
         /\ call' = [call EXCEPT
                        !.stage = "merged later",
                        !.thinker_context =
                            MergeInsight(@, clue_number,
                                ThinkerInsightOf(clue_number), time)]
    /\ UNCHANGED serverVars

NextContext ==
    \/ ContextTurn
    \/ ContextInsight
    \/ ContextInject
    \/ ContextInsightLater

SpecContext == InitContext /\ [][NextContext]_vars

\* C15: generate_context_injection returns the same string for the same
\* analyses, turn and ThinkerContext, whatever the values of analyzed_at,
\* last_updated and latency_ms in them.
ThmC15 ==
    call.stage = "injected" =>
      \A t \in Stamps :
        generate_context_injection(
            RestampAnalyses(call.clue_analyses, t), call.current_clue_number,
            RestampContext(call.thinker_context, t))
          = call.context

\* the context of turn 2 was built for a session that holds two analyses,
\* made at different minutes, the first with an Oracle synthesis, and the
\* insight of its first clue; none of their time fields has a value of
\* Stamps, and the context has the Thinker block, the analyses and the
\* trend line
WitC15 ==
    /\ call.stage = "injected"
    /\ call.current_clue_number = 2
    /\ Len(call.clue_analyses) = 2
    /\ call.clue_analyses[1].oracle_synthesis # NoneV
    /\ call.clue_analyses[1].oracle_synthesis.latency_ms \notin Stamps
    /\ call.clue_analyses[1].analyzed_at # call.clue_analyses[2].analyzed_at
    /\ \A i \in 1..2 : call.clue_analyses[i].analyzed_at \notin Stamps
    /\ call.thinker_context.insights # <<>>
    /\ call.thinker_context.last_updated \notin Stamps
    /\ call.context[1] = <<StrDeepHeader>>
    /\ \E i \in 1..Len(call.context) : call.context[i][1] = ">> ORACLE"
    /\ \E i \in 1..Len(call.context) : call.context[i][1] = "TREND"

HasThinkerBlock(lines) == \E j \in 1..Len(lines) : lines[j][1] = StrDeepHeader

\* C5: the context built for turn n holds a Thinker block exactly when the
\* ThinkerContext held an insight of turn n-1 when the context was built,
\* and the block is written from that insight and from no other; an
\* insight merged after the context was built is not in it.
ThmC5 ==
    call.stage \in {"injected", "merged later"} =>
        LET ins == call.built_from.insights
            prior == {i \in 1..Len(ins) :
                        ins[i].clue_number = call.current_clue_number - 1}
        IN  /\ HasThinkerBlock(call.context) <=> prior # {}
            /\ \A j \in 1..Len(call.context) :
                  call.context[j][1] = "Top Hypothesis" =>
                     \E i \in prior :
                        call.context[j] = <<"Top Hypothesis",
                                            ins[i].top_guess,
                                            ins[i].confidence>>

\* the context of turn 2 was built while the ThinkerContext held only the
\* insight of turn 2, and has no Thinker block; the insight of turn 1 was
\* merged afterwards
WitC5 ==
    /\ call.stage = "merged later"
    /\ call.current_clue_number = 2
    /\ InsightClues(call.built_from) = <<2>>
    /\ InsightClues(call.thinker_context) = <<2, 1>>
    /\ ~HasThinkerBlock(call.context)
    /\ call.context # <<>>

(***************************************************************************)
(* SpecMerge: the merge of routes.get_thinker_status on one ThinkerContext *)
(***************************************************************************)
\* the turn numbers polled, and the merges of a run
MaxMergeClue == 3
MaxMerges == 4

\* the results a Thinker may give for a turn
InsightVariants(clue_number) ==
    {ThinkerInsightOf(clue_number),
     [ThinkerInsightOf(clue_number) EXCEPT !.top_guess = StrStrike]}

InitMerge ==
    /\ InitServer
    /\ oracle = [enabled |-> FALSE]
    /\ call = [stage |-> "merging", thinker_context |-> NewThinkerContext,
               merges |-> 0, last |-> NoneV]

\* the merge of a poll, taken by itself: the poll is for a turn number
\* and the insight is a result for that turn; the merges of polls for the
\* same turn, repeated or made side by side, come one after the other, the
\* merge having no suspension point
CallMerge ==
    /\ call.stage = "merging"
    /\ call.merges < MaxMerges
    /\ \E clue_number \in 1..MaxMergeClue, time \in ContextTimes :
         \E insight \in InsightVariants(clue_number) :
           call' = [call EXCEPT
                       !.merges = @ + 1,
                       !.last = [clue_number |-> clue_number,
                                 insight |-> insight,
                                 before |-> call.thinker_context],
                       !.thinker_context =
                           MergeInsight(@, clue_number, insight, time)]
    /\ UNCHANGED serverVars

NextMerge == CallMerge

SpecMerge == InitMerge /\ [][NextMerge]_vars

NoDuplicateInsight(thinker_context) ==
    \A i, j \in 1..Len(thinker_context.insights) :
        i # j => thinker_context.insights[i].clue_number
                    # thinker_context.insights[j].clue_number
(***************************************************************************)
(* SpecAnalyses: the analyses and the hypothesis tracker of one session,   *)
(* turn by turn                                                            *)
(***************************************************************************)
\* clues of the session
MaxAnalysesClues == 3

InitAnalyses ==
    /\ InitServer
    /\ oracle = [enabled |-> TRUE]
    /\ call = [stage |-> "idle",
               state |-> NewSession(0),
               clue_number |-> 0,
               clue_text |-> <<>>,
               stored |-> NoneV]

\* routes.predict up to the call of the orchestrator: the clue appended
\* and the turn number read
TurnBegins ==
    /\ call.stage = "idle"
    /\ Len(call.state.clues) < MaxAnalysesClues
    /\ LET clue_text == ClueAt(Len(call.state.clues) + 1)
           clues == Append(call.state.clues, clue_text)
       IN  call' = [call EXCEPT
                       !.stage = "entered",
                       !.state.clues = clues,
                       !.clue_number = ClueNumberOf(clues),
                       !.clue_text = clue_text,
                       !.stored = NoneV]
    /\ UNCHANGED serverVars

\* the turn ends in the except clause: nothing more is stored
TurnFails ==
    /\ call.stage = "entered"
    /\ call' = [call EXCEPT !.stage = "idle"]
    /\ UNCHANGED serverVars

\* the turn completes: the block that stores the analysis runs on the
\* result of the orchestrator
TurnStores ==
    /\ call.stage = "entered"
    /\ \E scenario \in Scenarios, synthesis \in {NoneV, OracleAnswer} :
         \E result \in {ResultOf(scenario, synthesis, call.clue_number)} :
           call' = [call EXCEPT
                       !.stage = "idle",
                       !.stored = [clue_number |-> call.clue_number,
                                   oracle_synthesis |-> synthesis],
                       !.state = StoreAnalysis(@, call.clue_number,
                                                call.clue_text, result, 0)]
    /\ UNCHANGED serverVars

\* a poll's merge on the session, between two turns or during one
AnalysesMerge ==
    /\ \E clue_number \in 1..2 :
         /\ get_for_clue(call.state.thinker_context, clue_number) = NoneV
         /\ call' = [call EXCEPT
                        !.stored = NoneV,
                        !.state.thinker_context =
                            MergeInsight(@, clue_number,
                                ThinkerInsightOf(clue_number), 0)]
    /\ UNCHANGED serverVars

NextAnalyses ==
    \/ TurnBegins
    \/ TurnFails
    \/ TurnStores
    \/ AnalysesMerge

SpecAnalyses == InitAnalyses /\ [][NextAnalyses]_vars

\* the confidences recorded under a key of the hypothesis tracker
HistoryOf(tracker, key) ==
    IF \E i \in 1..Len(tracker) : tracker[i].key = key
    THEN tracker[CHOOSE i \in 1..Len(tracker) : tracker[i].key = key].history
    ELSE <<>>

TrackerKeys(tracker) == {tracker[i].key : i \in 1..Len(tracker)}

\* what one turn records under a key: the top confidence under the top
\* answer, then the alternative's confidence under the alternative
TurnEntries(key, analysis) ==
    (IF key = Lower(analysis.top_answer)
     THEN <<analysis.top_confidence>> ELSE <<>>)
    \o (IF /\ analysis.alt_answer # <<>>
           /\ analysis.alt_answer[1] # <<>>
           /\ analysis.alt_confidence[1] # FZero
           /\ key = Lower(analysis.alt_answer[1])
        THEN <<analysis.alt_confidence[1]>> ELSE <<>>)

\* this step is a turn that completes
Completing == call.stage = "entered" /\ call'.stored # NoneV

(***************************************************************************)
(* SpecOracleInput: one call of AgentOrchestrator.predict on a session     *)
(* that holds the analyses of its earlier turns                            *)
(***************************************************************************)
\* the turn of the call
MaxOracleTurn == 3

\* the session at turn n: n clues, and the analyses of the turns before n
\* stored one by one, each turn with the outcomes of sc and a synthesis
RECURSIVE SessionAtTurn(_, _)
SessionAtTurn(n, sc) ==
    IF n = 1
    THEN [NewSession(0) EXCEPT !.clues = CluesOfLen(1)]
    ELSE [StoreAnalysis(SessionAtTurn(n - 1, sc), n - 1, ClueAt(n - 1),
                        ResultOf(sc, OracleAnswer, n - 1), 0)
            EXCEPT !.clues = CluesOfLen(n)]

InitOracleInput ==
    /\ orch = [r \in Req |-> IdleFrame]
    /\ hist = [r \in Req |-> IdleHist]
    /\ handler = [r \in Req |-> IdleHandler]
    /\ \E n \in 1..MaxOracleTurn, sc \in Scenarios :
         session_objs = [s \in {1} |-> SessionAtTurn(n, sc)]
    /\ sessions = {1}
    /\ uuid_count = 1
    /\ calls = 0
    /\ poll_log = NoneV
    /\ reset_log = <<>>
    /\ activity = [s \in {1} |-> 0]
    /\ call = NoneV
    /\ now = 0
    /\ oracle = [enabled |-> TRUE]

\* the caller of predict, from the return of predict to its own return:
\* last_prediction takes the recommended pick and the analysis of the turn
\* is stored; the caller awaits nothing on the way
CallerStores(r) ==
    /\ orch[r].pc = "returned"
    /\ orch' = [orch EXCEPT ![r].pc = "stored"]
    /\ session_objs' = [session_objs EXCEPT ![orch[r].sid] =
          StoreAnalysis(@, orch[r].clue_number,
                        @.clues[orch[r].clue_number],
                        [predictions |-> orch[r].result.predictions,
                         voting |-> orch[r].result.voting,
                         oracle_synthesis |-> orch[r].result.oracle_synthesis],
                        now)]
    /\ UNCHANGED <<hist, handler, sessions, uuid_count, calls, poll_log,
                   reset_log, activity, call, now, oracle>>

NextOracleInput ==
    \E r \in Req :
      \/ PredictCall(r)
      \/ OracleStart(r)
      \/ OracleSettle(r)
      \/ AgentSettleIn(r, Scenarios)
      \/ GatherDone(r)
      \/ OracleJoin(r)
      \/ CallerStores(r)

SpecOracleInput == InitOracleInput /\ [][NextOracleInput]_vars

\* the clue numbers of a list of analyses
AnalysisNumbers(analyses) ==
    {analyses[i].clue_number : i \in 1..Len(analyses)}

(***************************************************************************)
(* SpecVote: one call of WeightedVoting.vote and of should_guess on its    *)
(* result                                                                  *)
(***************************************************************************)
StrTheBowling == <<" ","T","h","e"," ","B","o","w","l","i","n","g"," ">>

\* what a specialist may hand to the vote: nothing, or an AgentPrediction
PredictionOptions ==
    {NoneV,
     [answer |-> StrBowling, confidence |-> 90, reasoning |-> StrStrike],
     [answer |-> StrBowling, confidence |-> 65, reasoning |-> StrPins],
     [answer |-> StrTheBowling, confidence |-> 85, reasoning |-> StrShow],
     [answer |-> StrLife, confidence |-> 75, reasoning |-> StrGame],
     [answer |-> StrLife, confidence |-> 0, reasoning |-> StrSpin]}

\* the predictions dict of the orchestrator: one item per specialist, in
\* the order of the agents
ItemsOf(f) ==
    [i \in 1..Len(AgentOrder) |->
        [agent |-> AgentOrder[i], pred |-> f[AgentOrder[i]]]]

VotePredictions ==
    {ItemsOf(f) : f \in [Agents -> PredictionOptions]} \cup {ItemsOf(AgentAnswer)}

\* the clue numbers handed to vote, 0 and those above 5 included
VoteClueNumbers == 0..MaxClueNumber

InitVote ==
    /\ InitServer
    /\ oracle = [enabled |-> FALSE]
    /\ call \in {[stage |-> "args", predictions |-> p, clue_number |-> n] :
                    p \in VotePredictions, n \in VoteClueNumbers}

\* voting_result = self.voting.vote(predictions, clue_number)
CallVote ==
    /\ call.stage = "args"
    /\ call' = [stage |-> "voted",
                predictions |-> call.predictions,
                clue_number |-> call.clue_number,
                clue_weights |-> WeightsFor(call.clue_number),
                voting |-> vote(call.predictions, call.clue_number)]
    /\ UNCHANGED serverVars

\* should_guess, rationale = self.voting.should_guess(voting_result, clue_number)
CallShouldGuess ==
    /\ call.stage = "voted"
    /\ call' = [stage |-> "decided",
                predictions |-> call.predictions,
                clue_number |-> call.clue_number,
                clue_weights |-> call.clue_weights,
                voting |-> call.voting,
                guess |-> should_guess(call.voting, call.clue_number)]
    /\ UNCHANGED serverVars

NextVote == CallVote \/ CallShouldGuess

SpecVote == InitVote /\ [][NextVote]_vars

(***************************************************************************)
(* The agreement strength                                                  *)
(***************************************************************************)
\* the specialists whose answer, normalized, is the recommended pick
PickSupporters(predictions, voting_result) ==
    {i \in 1..Len(predictions) :
        /\ predictions[i].pred # NoneV
        /\ normalize_answer(predictions[i].pred.answer)
              = normalize_answer(voting_result.recommended_pick)}

\* the strength the table gives to k agreeing specialists
StrengthTable(k) ==
    IF k = 0 THEN "none"
    ELSE IF k = 1 THEN "weak"
    ELSE IF k \in {2, 3} THEN "moderate"
    ELSE "strong"

\* C16: the agreement strength of a vote is the table's value for the
\* member count k of the winning cluster (none for no prediction, weak for
\* 1, moderate for 2 and 3, strong from 4), whatever the confidences, the
\* weights, the clue number and the sizes of the other clusters; the table
\* does not decrease in k.
ThmC16 ==
    call.stage \in {"voted", "decided"} =>
        LET valid == FilterValid(call.predictions)
            k == IF valid = <<>> THEN 0
                 ELSE Cardinality(PickSupporters(call.predictions, call.voting))
        IN  /\ call.voting.agreement_strength = StrengthTable(k)
            /\ valid # <<>> => Len(call.voting.vote_breakdown[1].agents) = k
            /\ \A j \in 0..k :
                  agreement_order[StrengthTable(j)]
                      <= agreement_order[StrengthTable(k)]

\* a vote won by a single specialist against a cluster of three whose
\* confidences are above zero: the agreement is weak
WitC16 ==
    /\ call.stage = "voted"
    /\ Len(call.voting.vote_breakdown) = 2
    /\ Len(call.voting.vote_breakdown[1].agents) = 1
    /\ Len(call.voting.vote_breakdown[2].agents) = 3
    /\ FGt(call.voting.vote_breakdown[2].total_votes, FZero)
    /\ call.voting.agreement_strength = "weak"

(***************************************************************************)
(* The decision to guess                                                   *)
(***************************************************************************)
\* the table of the decision for clues 1..4: least confidence in percent,
\* least agreement
GuessTable ==
    << [min_confidence |-> 90, min_agreement |-> "strong"],
       [min_confidence |-> 85, min_agreement |-> "strong"],
       [min_confidence |-> 75, min_agreement |-> "moderate"],
       [min_confidence |-> 65, min_agreement |-> "weak"] >>

\* none < weak < moderate < strong
StrengthRank(strength) ==
    CASE strength = "none" -> 0
      [] strength = "weak" -> 1
      [] strength = "moderate" -> 2
      [] strength = "strong" -> 3

\* C17: should_guess answers true for every vote at clue 5, the vote
\* without predictions included; at clues 1..4 it answers true exactly when
\* the recommended confidence is at least the table's confidence and the
\* agreement is at least the table's agreement, with the table
\* 1:(0.90, strong), 2:(0.85, strong), 3:(0.75, moderate), 4:(0.65, weak).
ThmC17 ==
    (call.stage = "decided" /\ call.clue_number \in 1..5) =>
        LET n == call.clue_number
            v == call.voting
        IN  call.guess.guess =
               IF n = 5 THEN TRUE
               ELSE /\ FGe(v.recommended_confidence,
                           FromRatio(GuessTable[n].min_confidence, 100))
                    /\ StrengthRank(v.agreement_strength)
                          >= StrengthRank(GuessTable[n].min_agreement)

\* should_guess has answered true at clue 5 for the vote without predictions
WitC17 ==
    /\ call.stage = "decided"
    /\ call.clue_number = 5
    /\ call.voting.vote_breakdown = <<>>
    /\ call.voting.agreement_strength = "none"
    /\ call.guess.guess

(***************************************************************************)
(* The totals, the averages and the order of the clusters                  *)
(***************************************************************************)
\* the AgentPrediction of a specialist in the predictions dict
PredictionOf(predictions, agent_name) ==
    predictions[CHOOSE i \in 1..Len(predictions) :
                   predictions[i].agent = agent_name].pred

\* sum of f over the elements of a sequence of agent names
RECURSIVE SumOverAgents(_, _, _)
SumOverAgents(agent_names, predictions, weight) ==
    IF agent_names = <<>> THEN 0
    ELSE LET a == agent_names[Len(agent_names)]
         IN  weight[a] * PredictionOf(predictions, a).confidence
             + SumOverAgents(SubSeq(agent_names, 1, Len(agent_names) - 1),
                             predictions, weight)

UnitWeight == [a \in Agents |-> 1]

\* the float x is the fraction num/den up to the rounding of a few float
\* operations: x * den differs from num by at most 2^-30, which is
\* 2^Tolerance units
Tolerance == 3 * LimbBits
Near(x, num, den) ==
    LET scaled == MulSmall(x, den, 0)
        target == FromInt(num)
        diff == IF CmpLimbs(scaled, target) >= 0
                THEN SubBorrow(scaled, target, 0)
                ELSE SubBorrow(target, scaled, 0)
    IN  CmpLimbs(diff, PowLimbs(NumLimbs, Tolerance)) <= 0

\* the turn-2 scenario: lateral and wordsmith answer Bowling at 0.85 and
\* 0.80, the three others give three other answers
Turn2Scenario ==
    /\ call.predictions = ItemsOf(AgentAnswer)
    /\ call.clue_number = 2

\* C19: in a vote over at least one prediction every responding specialist
\* is in exactly one cluster; a cluster's total is the sum of weight times
\* confidence over its members, its average the mean of their confidences,
\* both as floats, that is up to the rounding of the float operations; the
\* clusters come in descending order of total, the first is the
\* recommendation and its average the recommended confidence. In the
\* turn-2 scenario the winner is {lateral, wordsmith} with about 2.145
\* votes, moderate agreement and the pick "Bowling".
ThmC19 ==
    (call.stage \in {"voted", "decided"}
       /\ FilterValid(call.predictions) # <<>>) =>
        LET v == call.voting
            vb == v.vote_breakdown
            w == WeightsFor(call.clue_number)
        IN  /\ vb # <<>>
            /\ \A i \in 1..Len(call.predictions) :
                  call.predictions[i].pred # NoneV =>
                     Cardinality({c \in 1..Len(vb) :
                        \E m \in 1..Len(vb[c].agents) :
                           vb[c].agents[m] = call.predictions[i].agent}) = 1
            /\ \A c \in 1..Len(vb) :
                  /\ vb[c].agents # <<>>
                  /\ \A m \in 1..Len(vb[c].agents) :
                        PredictionOf(call.predictions, vb[c].agents[m]) # NoneV
                  /\ Near(vb[c].total_votes,
                          SumOverAgents(vb[c].agents, call.predictions, w),
                          1000)
                  /\ Near(vb[c].avg_confidence,
                          SumOverAgents(vb[c].agents, call.predictions,
                                        UnitWeight),
                          100 * Len(vb[c].agents))
            /\ \A c, d \in 1..Len(vb) :
                  c < d => CmpLimbs(vb[c].total_votes, vb[d].total_votes) >= 0
            /\ v.recommended_pick = vb[1].answer
            /\ v.recommended_confidence = vb[1].avg_confidence
            /\ Turn2Scenario =>
                  /\ vb[1].agents = <<"lateral", "wordsmith">>
                  /\ Near(vb[1].total_votes, 2145, 1000)
                  /\ v.agreement_strength = "moderate"
                  /\ v.recommended_pick = StrBowling

\* the vote of the turn-2 scenario has been taken: four clusters
WitC19 ==
    /\ call.stage = "voted"
    /\ Turn2Scenario
    /\ Len(call.voting.vote_breakdown) = 4

(***************************************************************************)
(* The weight table of a vote                                              *)
(***************************************************************************)
\* sum of the weights a table gives to the five specialists
RECURSIVE SumWeights(_, _)
SumWeights(table, agent_names) ==
    IF agent_names = <<>> THEN 0
    ELSE table[Head(agent_names)] + SumWeights(table, Tail(agent_names))

\* C20: a vote at clue n in 1..5 uses the weight table of clue n, whose
\* five weights sum to more than 0; a vote at any other clue number uses
\* the table of clue 3. The totals of the vote are those of that table, up
\* to the rounding of the float operations.
ThmC20 ==
    call.stage \in {"voted", "decided"} =>
        LET n == call.clue_number
            table == IF n \in 1..5 THEN CLUE_WEIGHTS[n] ELSE CLUE_WEIGHTS[3]
            vb == call.voting.vote_breakdown
        IN  /\ call.clue_weights = table
            /\ DOMAIN table = Agents
            /\ n \in 1..5 => SumWeights(CLUE_WEIGHTS[n], AgentOrder) > 0
            /\ \A c \in 1..Len(vb) :
                  Near(vb[c].total_votes,
                       SumOverAgents(vb[c].agents, call.predictions, table),
                       1000)

\* a vote at clue number 6 in which wildcard alone has answered Bowling at
\* 0.90: 0.72 votes, the weight 0.8 of the table of clue 3
WitC20 ==
    /\ call.stage = "voted"
    /\ call.clue_number = 6
    /\ Len(call.voting.vote_breakdown) = 1
    /\ call.voting.vote_breakdown[1].agents = <<"wildcard">>
    /\ Near(call.voting.vote_breakdown[1].total_votes, 720, 1000)

(***************************************************************************)
(* SpecNorm: the answers of two specialists normalized and clustered       *)
(***************************************************************************)
\* leading articles in an answer
MaxArticles == 2

StrTeam == <<"T","e","a","m">>
ArticleWords ==
    {<<"T","h","e"," ">>, <<"t","h","e"," ">>, <<"A"," ">>, <<"a","n"," ">>}
Pads == {<<>>, <<" ">>}

\* the runs of at most n articles
RECURSIVE ArticleRuns(_)
ArticleRuns(n) ==
    IF n = 0 THEN {<<>>}
    ELSE ArticleRuns(n - 1)
         \cup {a \o run : a \in ArticleWords, run \in ArticleRuns(n - 1)}

\* answers such as "Bowling", " The Bowling ", "A Team", "The A Team"
NormAnswers ==
    {lead \o run \o word \o trail :
        lead \in Pads, run \in ArticleRuns(MaxArticles),
        word \in {StrBowling, StrTeam}, trail \in Pads}

\* the predictions dict of two specialists that have answered
TwoPredictions(first, second) ==
    << [agent |-> "lateral",
        pred |-> [answer |-> first, confidence |-> 85, reasoning |-> StrStrike]],
       [agent |-> "wordsmith",
        pred |-> [answer |-> second, confidence |-> 80, reasoning |-> StrPins]] >>

InitNorm ==
    /\ InitServer
    /\ oracle = [enabled |-> FALSE]
    /\ call \in [stage : {"args"}, first : NormAnswers, second : NormAnswers]

\* normalize_answer(pred.answer) for both answers
CallNormalize ==
    /\ call.stage = "args"
    /\ call' = [stage |-> "normalized",
                first |-> call.first,
                second |-> call.second,
                normalized_first |-> normalize_answer(call.first),
                normalized_second |-> normalize_answer(call.second)]
    /\ UNCHANGED serverVars

\* cluster_predictions(predictions) for the two answers
CallCluster ==
    /\ call.stage = "normalized"
    /\ call' = [stage |-> "clustered",
                first |-> call.first,
                second |-> call.second,
                normalized_first |-> call.normalized_first,
                normalized_second |-> call.normalized_second,
                clusters |-> cluster_predictions(
                                 TwoPredictions(call.first, call.second))]
    /\ UNCHANGED serverVars

NextNorm == CallNormalize \/ CallCluster

SpecNorm == InitNorm /\ [][NextNorm]_vars

\* lower-cased, trimmed, and one leading article removed if there is one
SingleArticleStripped(answer) ==
    LET s == Strip(Lower(answer))
    IN  IF \E i \in 1..Len(prefixes) : StartsWith(s, prefixes[i])
        THEN LET i == CHOOSE j \in 1..Len(prefixes) : StartsWith(s, prefixes[j])
             IN  SubSeq(s, Len(prefixes[i]) + 1, Len(s))
        ELSE s

\* C18: normalize_answer lower-cases, trims and removes one leading article
\* ("the ", "a ", "an ") and nothing more; two specialists that responded
\* are in the same cluster exactly when their normalized answers are the
\* same string.
CexC18 ==
    /\ call.stage \in {"normalized", "clustered"} =>
          /\ call.normalized_first = SingleArticleStripped(call.first)
          /\ call.normalized_second = SingleArticleStripped(call.second)
    /\ call.stage = "clustered" =>
          ((\E c \in 1..Len(call.clusters) :
               call.clusters[c].agents = <<"lateral", "wordsmith">>)
           <=> call.normalized_first = call.normalized_second)

(***************************************************************************)
(* SpecTracker: the hypothesis tracker over the turns of one session       *)
(***************************************************************************)
\* turns of the session
MaxTrackTurns == 3

StrTheBowlingPlain == <<"T","h","e"," ","B","o","w","l","i","n","g">>
StrBowlingLower == <<"b","o","w","l","i","n","g">>

\* the answers of a turn: lateral answers "The Bowling" or "bowling",
\* literal is absent or answers "Life", at 0.40 or at 0.0
TrackerPredictions ==
    {ItemsOf([a \in Agents |->
                 IF a = "lateral" THEN first
                 ELSE IF a = "literal" THEN second
                 ELSE NoneV]) :
        first \in {[answer |-> StrTheBowlingPlain, confidence |-> 85,
                    reasoning |-> StrStrike],
                   [answer |-> StrBowlingLower, confidence |-> 80,
                    reasoning |-> StrPins]},
        second \in {NoneV,
                    [answer |-> StrLife, confidence |-> 40,
                     reasoning |-> StrGame],
                    [answer |-> StrLife, confidence |-> 0,
                     reasoning |-> StrSpin]}}

InitTracker ==
    /\ InitServer
    /\ oracle = [enabled |-> FALSE]
    /\ call = [stage |-> "tracking", clue_analyses |-> <<>>,
               hypothesis_tracker |-> <<>>]

\* one turn of routes.predict as the tracker sees it: the vote of the
\* turn, create_clue_analysis, the analysis appended,
\* update_hypothesis_tracker
TrackTurn ==
    /\ call.stage = "tracking"
    /\ Len(call.clue_analyses) < MaxTrackTurns
    /\ \E predictions \in TrackerPredictions :
         LET clue_number == Len(call.clue_analyses) + 1
             valid == FilterValid(predictions)
             analysis ==
                 create_clue_analysis(clue_number, ClueAt(clue_number), valid,
                     vote(valid, clue_number), call.clue_analyses, now)
         IN  call' = [stage |-> "tracking",
                      clue_analyses |-> Append(call.clue_analyses, analysis),
                      hypothesis_tracker |->
                          update_hypothesis_tracker(call.hypothesis_tracker,
                                                    analysis)]
    /\ UNCHANGED serverVars

NextTracker == TrackTurn

SpecTracker == InitTracker /\ [][NextTracker]_vars

\* what the turns record under a normalized answer: for each analysis in
\* turn order, the confidence of the winner if that is its normalized
\* answer, then the confidence of the runner-up, if there is one, if that
\* is its normalized answer
RECURSIVE LedgerOf(_, _)
LedgerOf(analyses, key) ==
    IF analyses = <<>> THEN <<>>
    ELSE LET a == analyses[Len(analyses)]
         IN  LedgerOf(SubSeq(analyses, 1, Len(analyses) - 1), key)
             \o (IF normalize_answer(a.top_answer) = key
                 THEN <<a.top_confidence>> ELSE <<>>)
             \o (IF a.alt_answer # <<>>
                    /\ normalize_answer(a.alt_answer[1]) = key
                 THEN <<a.alt_confidence[1]>> ELSE <<>>)

\* the normalized answers of the winners and runners-up of the turns
LedgerKeys(analyses) ==
    {normalize_answer(analyses[i].top_answer) : i \in 1..Len(analyses)}
    \cup {normalize_answer(analyses[i].alt_answer[1]) :
            i \in {j \in 1..Len(analyses) : analyses[j].alt_answer # <<>>}}

\* C21: after each turn the tracker holds, under each normalized answer,
\* the confidences of the winners and of the runners-up with that
\* normalized answer, in turn order, and it has no other key.
CexC21 ==
    call.stage = "tracking" =>
        /\ TrackerKeys(call.hypothesis_tracker) = LedgerKeys(call.clue_analyses)
        /\ \A key \in LedgerKeys(call.clue_analyses) :
              HistoryOf(call.hypothesis_tracker, key)
                  = LedgerOf(call.clue_analyses, key)

(***************************************************************************)
(* SpecOracle: OracleAgent._parse_response on one response text            *)
(***************************************************************************)
\* guesses in the top_3 list of a response
MaxGuesses == 4

\* the fields of the dataclass OracleSynthesis (reasoning_accumulator.py)
OracleSynthesisFields == {"top_3", "key_theme", "blind_spot", "latency_ms"}

\* the guesses a response may list, best first; a confidence may be a
\* number out of range or not a number
GuessAt(i, confidence) ==
    [answer |-> IF i % 2 = 1 THEN StrBowling ELSE StrLife,
     confidence |-> IF i = 1 THEN confidence ELSE <<"int", 90 - i>>,
     explanation |-> StrStrike]
GuessConfidences == {<<"int", 92>>, <<"int", 150>>, <<"text", 0>>}

\* the JSON objects of a response: a key that may be missing has the
\* empty sequence when it is, and a one-element sequence holding its value
\* when it is present
OracleObjects ==
    {[top_3 |-> t, key_theme |-> StrGame, blind_spot |-> StrSpin,
      misdirection_detected |-> m] :
        t \in {<<>>}
              \cup {<< [i \in 1..k |-> GuessAt(i, c)] >> :
                       k \in 0..MaxGuesses, c \in GuessConfidences},
        m \in {<<>>, <<StrShow>>}}

\* the text of a response: bare, or inside a markdown code block whose
\* last line is or is not the closing fence; the payload is a JSON object
\* or text that is not JSON
NotJson == [not_json |-> TRUE]
OracleContents ==
    [fence : {"none", "closed", "open"},
     payload : OracleObjects \cup {NotJson}]

\* json.loads(content) after the code block is removed
JsonLoads(content) ==
    IF content.payload = NotJson THEN [raised |-> "JSONDecodeError"]
    ELSE [raised |-> "no", data |-> content.payload]

\* int(guess.get("confidence", 50))
IntOf(value) ==
    IF value[1] = "int" THEN [raised |-> "no", value |-> value[2]]
    ELSE [raised |-> "ValueError"]

\* in place of ParseGuesses: the list of guesses is not cut to its first 3
ParseGuessesMut(data) ==
    LET listed == IF data.top_3 = <<>> THEN <<>> ELSE data.top_3[1]
    IN  IF \E i \in 1..Len(listed) : IntOf(listed[i].confidence).raised # "no"
        THEN [raised |-> "ValueError"]
        ELSE [raised |-> "no",
              top_3 |-> [i \in 1..Len(listed) |->
                           [answer |-> listed[i].answer,
                            confidence |-> IntOf(listed[i].confidence).value,
                            explanation |-> Prefix(listed[i].explanation, 150)]]]

\* the loop over data.get("top_3", [])[:3]
ParseGuesses(data) ==
    LET listed == IF data.top_3 = <<>> THEN <<>> ELSE data.top_3[1]
        first3 == Prefix(listed, 3)
    IN  IF \E i \in 1..Len(first3) : IntOf(first3[i].confidence).raised # "no"
        THEN [raised |-> "ValueError"]
        ELSE [raised |-> "no",
              top_3 |-> [i \in 1..Len(first3) |->
                           [answer |-> first3[i].answer,
                            confidence |-> IntOf(first3[i].confidence).value,
                            explanation |-> Prefix(first3[i].explanation, 150)]]]

\* OracleSynthesis(**kwargs): the generated __init__ of the dataclass
\* takes its four fields, none of which has a default, and raises
\* TypeError for a keyword that is not a field and for a field left out
OracleSynthesisInit(kwargs) ==
    IF DOMAIN kwargs = OracleSynthesisFields
    THEN [raised |-> "no", value |-> kwargs]
    ELSE [raised |-> "TypeError"]

\* the guesses and the keywords that _parse_response hands to
\* OracleSynthesis
OracleKeywords(data, top_3) ==
    [top_3 |-> top_3,
     key_theme |-> Prefix(data.key_theme, 100),
     blind_spot |-> Prefix(data.blind_spot, 100),
     latency_ms |-> 0,
     misdirection_detected |->
         Prefix(IF data.misdirection_detected = <<>> THEN <<>>
                ELSE data.misdirection_detected[1], 150)]

\* OracleAgent._parse_response up to return OracleSynthesis(...): the
\* keywords of that call, or None when the parser returns before it
OracleSynthesisCall(content) ==
    LET loaded == JsonLoads(content)
    IN  IF loaded.raised # "no" THEN NoneV
        ELSE
          LET parsed == ParseGuesses(loaded.data)
          IN  IF parsed.raised # "no" THEN NoneV
              ELSE IF parsed.top_3 = <<>> THEN NoneV
              ELSE OracleKeywords(loaded.data, parsed.top_3)

\* OracleAgent._parse_response: every exception ends in return None, the
\* TypeError of OracleSynthesis(...) included
oracle_parse_response(content) ==
    LET kwargs == OracleSynthesisCall(content)
    IN  IF kwargs = NoneV THEN NoneV
        ELSE LET built == OracleSynthesisInit(kwargs)
             IN  IF built.raised # "no" THEN NoneV ELSE built.value

InitOracle ==
    /\ InitServer
    /\ oracle = [enabled |-> TRUE]
    /\ call \in [stage : {"args"}, content : OracleContents]

\* synthesis = self._parse_response(content)
CallOracleParse ==
    /\ call.stage = "args"
    /\ call' = [stage |-> "parsed",
                content |-> call.content,
                constructed |-> OracleSynthesisCall(call.content),
                synthesis |-> oracle_parse_response(call.content)]
    /\ UNCHANGED serverVars

NextOracle == CallOracleParse

SpecOracle == InitOracle /\ [][NextOracle]_vars

\* the response is not valid JSON, or its top_3 is missing or empty
NoGuessResponse(content) ==
    \/ content.payload = NotJson
    \/ content.payload.top_3 = <<>>
    \/ content.payload.top_3[1] = <<>>
\* parse_response searches it with three regular expressions; the
\* operators below compute what re.search computes for these patterns.
\* A confidence is kept in tenths of a percent (0..1000 for 0.0..1.0), the
\* responses carry at most one digit after the decimal point.

Digits == <<"0","1","2","3","4","5","6","7","8","9">>

\* int() of a run of digits
RECURSIVE DigitsValue(_)
DigitsValue(s) ==
    IF s = <<>> THEN 0
    ELSE DigitsValue(SubSeq(s, 1, Len(s) - 1)) * 10
         + ((CHOOSE i \in 1..10 : Digits[i] = s[Len(s)]) - 1)

\* the positions where the label stands in the content (re.IGNORECASE)
LabelPositions(content, label) ==
    {p \in 1..Len(content) :
        /\ p + Len(label) - 1 <= Len(content)
        /\ Lower(SubSeq(content, p, p + Len(label) - 1)) = label}

\* the longest run of characters of the set that starts at position a
RunLength(content, a, set) ==
    CHOOSE k \in 0..Len(content) :
        /\ \A j \in a..(a + k - 1) : j <= Len(content) /\ content[j] \in set
        /\ (a + k > Len(content) \/ content[a + k] \notin set)

\* the characters from position q up to the end of the line
LineFrom(content, q) ==
    LET ends == {j \in q..(Len(content) + 1) :
                    j = Len(content) + 1 \/ content[j] = "\n"}
        e == CHOOSE j \in ends : \A i \in ends : j <= i
    IN  SubSeq(content, q, e - 1)

\* LABEL:\s*(.+?)(?:\n|$) tried at the label position p: \s* takes the
\* whole run of white space and gives characters back until the group
\* can start on a character that is not a newline; the group then runs to
\* the end of that line.  No match is the empty sequence.
MatchLineAt(content, label, p) ==
    LET a  == p + Len(label)
        w  == RunLength(content, a, Whitespace)
        ks == {k \in 0..w : a + k <= Len(content) /\ content[a + k] # "\n"}
    IN  IF ks = {} THEN <<>>
        ELSE LET k == CHOOSE x \in ks : \A y \in ks : y <= x
             IN  << LineFrom(content, a + k) >>

\* re.search(r'LABEL:\s*(.+?)(?:\n|$)', content, re.IGNORECASE): group 1
\* of the leftmost match, or the empty sequence
SearchLine(content, label) ==
    LET ps == {p \in LabelPositions(content, label) :
                  MatchLineAt(content, label, p) # <<>>}
    IN  IF ps = {} THEN <<>>
        ELSE MatchLineAt(content, label,
                         CHOOSE p \in ps : \A q \in ps : p <= q)

\* CONFIDENCE:\s*(\d+(?:\.\d+)?) tried at p (with_fraction) or
\* CONFIDENCE:\s*(\d+) (without): the digits, and the digits after the
\* point when the pattern takes them
MatchNumberAt(content, label, p, with_fraction) ==
    LET a  == p + Len(label) + RunLength(content, p + Len(label), Whitespace)
        d  == RunLength(content, a, {Digits[i] : i \in 1..10})
        b  == a + d
        f  == IF with_fraction /\ b <= Len(content) /\ content[b] = "."
              THEN RunLength(content, b + 1, {Digits[i] : i \in 1..10})
              ELSE 0
    IN  IF d = 0 THEN <<>>
        ELSE << [whole    |-> SubSeq(content, a, b - 1),
                 fraction |-> SubSeq(content, b + 1, b + f)] >>

SearchNumber(content, label, with_fraction) ==
    LET ps == {p \in LabelPositions(content, label) :
                  MatchNumberAt(content, label, p, with_fraction) # <<>>}
    IN  IF ps = {} THEN <<>>
        ELSE MatchNumberAt(content, label,
                           CHOOSE p \in ps : \A q \in ps : p <= q,
                           with_fraction)

\* the digits of 2^1024 - 2^970, the least integer that int.__truediv__
\* cannot convert to a float (it rounds to 2^1024): OverflowError
FloatOverflowDigits ==
  <<"1","7","9","7","6","9","3","1","3","4","8","6","2","3","1","5",
    "8","0","7","9","3","7","2","8","9","7","1","4","0","5","3","0",
    "3","4","1","5","0","7","9","9","3","4","1","3","2","7","1","0",
    "0","3","7","8","2","6","9","3","6","1","7","3","7","7","8","9",
    "8","0","4","4","4","9","6","8","2","9","2","7","6","4","7","5",
    "0","9","4","6","6","4","9","0","1","7","9","7","7","5","8","7",
    "2","0","7","0","9","6","3","3","0","2","8","6","4","1","6","6",
    "9","2","8","8","7","9","1","0","9","4","6","5","5","5","5","4",
    "7","8","5","1","9","4","0","4","0","2","6","3","0","6","5","7",
    "4","8","8","6","7","1","5","0","5","8","2","0","6","8","1","9",
    "0","8","9","0","2","0","0","0","7","0","8","3","8","3","6","7",
    "6","2","7","3","8","5","4","8","4","5","8","1","7","7","1","1",
    "5","3","1","7","6","4","4","7","5","7","3","0","2","7","0","0",
    "6","9","8","5","5","5","7","1","3","6","6","9","5","9","6","2",
    "2","8","4","2","9","1","4","8","1","9","8","6","0","8","3","4",
    "9","3","6","4","7","5","2","9","2","7","1","9","0","7","4","1",
    "6","8","4","4","4","3","6","5","5","1","0","7","0","4","3","4",
    "2","7","1","1","5","5","9","6","9","9","5","0","8","0","9","3",
    "0","4","2","8","8","0","1","7","7","9","0","4","1","7","4","4",
    "9","7","7","9","2">>

\* a run of digits without its leading zeros
RECURSIVE StripZeros(_)
StripZeros(s) ==
    IF s # <<>> /\ Head(s) = "0" THEN StripZeros(Tail(s)) ELSE s

\* a >= b for two runs of digits without leading zeros
RECURSIVE DigitsGe(_, _)
DigitsGe(a, b) ==
    IF Len(a) # Len(b) THEN Len(a) > Len(b)
    ELSE IF a = <<>> THEN TRUE
    ELSE IF Head(a) # Head(b)
         THEN DigitsValue(<<Head(a)>>) > DigitsValue(<<Head(b)>>)
         ELSE DigitsGe(Tail(a), Tail(b))

\* the value of a run of digits in tenths of a percent when it is below
\* 10000, and 100000 (beyond every bound of the clamp) when it is not
TenthsOfDigits(digits) ==
    IF Len(StripZeros(digits)) > 4 THEN 100000
    ELSE DigitsValue(StripZeros(digits)) * 10

\* float(group) / 100, in tenths of a percent: float() of a run of digits
\* however long raises nothing (it gives inf beyond the largest float)
TenthsOf(number) ==
    TenthsOfDigits(number.whole)
    + (IF number.fraction = <<>> THEN 0
       ELSE DigitsValue(SubSeq(number.fraction, 1, 1)))

\* int(group) / 100.0: int() raises ValueError on more than 4300 digits,
\* and the division raises OverflowError when the integer is too large
\* to convert to a float
IntTenthsOf(number) ==
    IF Len(number.whole) > 4300 THEN [raised |-> "ValueError"]
    ELSE IF DigitsGe(StripZeros(number.whole), FloatOverflowDigits)
    THEN [raised |-> "OverflowError"]
    ELSE [raised |-> "no", value |-> TenthsOfDigits(number.whole)]

\* max(0.0, min(1.0, confidence))
Clamp(tenths) == IF tenths > 1000 THEN 1000 ELSE IF tenths < 0 THEN 0 ELSE tenths

\* str.strip('"\'')
RECURSIVE StripQuotes(_)
StripQuotes(s) ==
    IF s # <<>> /\ Head(s) \in {"\"", "'"} THEN StripQuotes(Tail(s))
    ELSE IF s # <<>> /\ s[Len(s)] \in {"\"", "'"}
         THEN StripQuotes(SubSeq(s, 1, Len(s) - 1))
         ELSE s

LabelAnswer == <<"a","n","s","w","e","r",":">>
LabelConfidence == <<"c","o","n","f","i","d","e","n","c","e",":">>
LabelReasoning == <<"r","e","a","s","o","n","i","n","g",":">>
StrNoReasoning == <<"N","o"," ","r","e","a","s","o","n","i","n","g">>

\* BaseAgent.parse_response: no answer match is None; no confidence match
\* is confidence 0.5; the except branch returns None (no step of the body
\* raises on a str)
BaseAgent_parse_response(content) ==
    LET answer_match == SearchLine(content, LabelAnswer)
        conf_match   == SearchNumber(content, LabelConfidence, TRUE)
        reason_match == SearchLine(content, LabelReasoning)
    IN  IF answer_match = <<>> THEN NoneV
        ELSE [answer     |-> Strip(answer_match[1]),
              confidence |-> Clamp(IF conf_match # <<>>
                                   THEN TenthsOf(conf_match[1]) ELSE 500),
              reasoning  |-> IF reason_match # <<>>
                             THEN Prefix(Strip(reason_match[1]), 50)
                             ELSE StrNoReasoning,
              latency_ms |-> 0]

\* AnthropicBaseAgent.parse_response: no answer match or no confidence
\* match is None; an exception raised by the conversion of the confidence
\* is caught and the result is None
AnthropicBaseAgent_parse_response(content) ==
    LET answer_match == SearchLine(content, LabelAnswer)
        conf_match   == SearchNumber(content, LabelConfidence, FALSE)
        reason_match == SearchLine(content, LabelReasoning)
    IN  IF answer_match = <<>> \/ conf_match = <<>> THEN NoneV
        ELSE IF IntTenthsOf(conf_match[1]).raised # "no" THEN NoneV
        ELSE [answer     |-> StripQuotes(Strip(answer_match[1])),
              confidence |-> Clamp(IntTenthsOf(conf_match[1]).value),
              reasoning  |-> Prefix(IF reason_match # <<>>
                                    THEN Strip(reason_match[1])
                                    ELSE StrNoReasoning, 50),
              latency_ms |-> 0]

\* the parser of each family of specialist classes
AgentClasses == {"BaseAgent", "AnthropicBaseAgent"}
parse_response(class, content) ==
    IF class = "BaseAgent" THEN BaseAgent_parse_response(content)
    ELSE AnthropicBaseAgent_parse_response(content)

\* the lines a response is made of; each kind of line may be missing
ResponseLines ==
    [answer     |-> {<<>>,
                     << <<"A","N","S","W","E","R",":"," ">> \o StrBowling >>,
                     << <<"a","n","s","w","e","r",":"," ","\"">> \o StrBowling
                        \o <<"\"">> >>,
                     << <<"A","N","S","W","E","R",":">> >>},
     confidence |-> {<<>>,
                     << <<"C","O","N","F","I","D","E","N","C","E",":"," ",
                          "8","5">> >>,
                     << <<"C","O","N","F","I","D","E","N","C","E",":"," ",
                          "1","5","0">> >>,
                     << <<"C","o","n","f","i","d","e","n","c","e",":",
                          "8","5",".","5">> >>,
                     << <<"C","O","N","F","I","D","E","N","C","E",":"," ",
                          "h","i","g","h">> >>,
                     << <<"C","O","N","F","I","D","E","N","C","E",":"," ",
                          "1">> \o [i \in 1..309 |-> "0"] >>,
                     << <<"C","O","N","F","I","D","E","N","C","E",":"," ">>
                        \o [i \in 1..300 |-> "9"] >>},
     reasoning  |-> {<<>>,
                     << <<"R","E","A","S","O","N","I","N","G",":"," ">>
                        \o StrStrike >>,
                     << <<"R","E","A","S","O","N","I","N","G",":"," ">>
                        \o [i \in 1..60 |-> "x"] >>}]

\* the lines joined by newlines
RECURSIVE JoinLines(_)
JoinLines(lines) ==
    IF lines = <<>> THEN <<>>
    ELSE IF Len(lines) = 1 THEN lines[1]
    ELSE lines[1] \o <<"\n">> \o JoinLines(Tail(lines))

\* the responses: the answer line, the confidence line and the reasoning
\* line, in this order, each present or not
AgentResponses ==
    {[lines   |-> [answer |-> a, confidence |-> c, reasoning |-> r],
      content |-> JoinLines((IF a = <<>> THEN <<>> ELSE <<a[1]>>)
                            \o (IF c = <<>> THEN <<>> ELSE <<c[1]>>)
                            \o (IF r = <<>> THEN <<>> ELSE <<r[1]>>))] :
        a \in ResponseLines.answer, c \in ResponseLines.confidence,
        r \in ResponseLines.reasoning}

\* a call of parse_response on a response, by an agent of either family
InitParse ==
    /\ InitServer
    /\ oracle = [enabled |-> FALSE]
    /\ call \in {[stage |-> "args", class |-> k, lines |-> x.lines,
                  content |-> x.content] :
                    k \in AgentClasses, x \in AgentResponses}

CallParse ==
    /\ call.stage = "args"
    /\ "content" \in DOMAIN call
    /\ "class" \in DOMAIN call
    /\ call' = [stage |-> "parsed", class |-> call.class,
                lines |-> call.lines, content |-> call.content,
                prediction |-> parse_response(call.class, call.content)]
    /\ UNCHANGED serverVars

NextParse == CallParse
SpecParse == InitParse /\ [][NextParse]_vars

\* the response has no answer line or no confidence line
LacksLine == call.lines.answer = <<>> \/ call.lines.confidence = <<>>

\* C23: a response that lacks the answer line or lacks the confidence line
\* yields an absent prediction, with no default confidence put in its
\* place; a response that has both yields a confidence within [0, 1] and a
\* reasoning of at most 50 characters.
CexC23 ==
    (call # NoneV /\ call.stage = "parsed" /\ "lines" \in DOMAIN call) =>
        /\ LacksLine => call.prediction = NoneV
        /\ (~LacksLine /\ call.prediction # NoneV) =>
               /\ call.prediction.confidence \in 0..1000
               /\ Len(call.prediction.reasoning) <= 50

\* ---------------------------------------------------------------------
\* The retry loop of the JSON predictors (gemini_predictor.py,
\* openai_predictor.py)
\* ---------------------------------------------------------------------
\* predict() of GeminiPredictor and of OpenAIPredictor: is_available(),
\* _get_client(), then for attempt in range(MAX_RETRIES) one chat
\* completion request.  What the provider does with a request is the
\* input: a text that _parse_response accepts ("parsed"), a text it
\* rejects ("unparsable": None, or a response that is not is_valid), a
\* response with no choices ("no_choices"), an exception ("error"), and
\* for OpenAIPredictor, whose request runs under asyncio.wait_for, a
\* TimeoutError ("timeout").  The prompt is kept as the list of the
\* attempts after which the hint was appended to messages[1]["content"].

Predictors == {"GeminiPredictor", "OpenAIPredictor"}
MAX_RETRIES == [GeminiPredictor |-> 3, OpenAIPredictor |-> 2]

\* what the provider does with a chat completion request
ProviderOutcomes ==
    [GeminiPredictor |-> {"parsed", "unparsable", "no_choices", "error"},
     OpenAIPredictor |-> {"parsed", "unparsable", "no_choices", "error",
                          "timeout"}]

\* what the provider does with the request client.models.list()
ProbeOutcomes == {"ok", "error"}

\* for attempt in range(self.MAX_RETRIES)
RangeHas(predictor, attempt) == attempt < MAX_RETRIES[predictor]

\* what predict returns when it returns no parsed result: None from
\* GeminiPredictor, an OpenAIResponse with its error text from
\* OpenAIPredictor
PredictorFailure(predictor, error) ==
    IF predictor = "GeminiPredictor" THEN NoneV
    ELSE [predictions |-> <<>>, error |-> error]

StrNotAvailable == "OpenAI predictor not available"
StrClientFailed == "Client initialization failed"
StrTimeout == "Timeout"
StrAllFailed == "All prediction attempts failed"

\* _get_client() returns a client: GeminiPredictor when the openai
\* package is installed, OpenAIPredictor when it is enabled and has a key
HasClient(setup) == setup

\* the predictor object when predict is called: _available is the cache
\* of is_available() ("None" before the first check), setup is what
\* _get_client() needs; the cache holds "True" only for an object that
\* has its client
PredictorObjects ==
    {x \in [predictor : Predictors,
            available : {"None", "True", "False"},
            setup : BOOLEAN] :
        x.available = "True" => x.setup}

InitPredictor ==
    /\ InitServer
    /\ oracle = [enabled |-> FALSE]
    /\ call \in {[stage |-> "predict", predictor |-> x.predictor,
                  pc |-> "enter", available |-> x.available,
                  setup |-> x.setup, probe |-> "none", attempt |-> 0,
                  requests |-> <<>>, hints |-> <<>>, result |-> NoneV] :
                    x \in PredictorObjects}

InPredictor == call # NoneV /\ call.stage = "predict"

\* predict once is_available() has returned true: client =
\* self._get_client(), and the loop is entered when there is a client
AfterAvailable(c) ==
    IF HasClient(c.setup)
    THEN [c EXCEPT !.pc = "loop"]
    ELSE [c EXCEPT !.pc = "returned",
                   !.result = PredictorFailure(c.predictor, StrClientFailed)]

\* predict once is_available() has returned false
NotAvailable(c) ==
    [c EXCEPT !.pc = "returned",
              !.result = PredictorFailure(c.predictor, StrNotAvailable)]

\* predict up to its first suspension: is_available() answers from its
\* cache, or finds the object without what its client needs, or, for
\* GeminiPredictor, sends client.models.list() and waits for the answer;
\* OpenAIPredictor sends nothing to find itself available
PredictorEnter ==
    /\ InPredictor
    /\ call.pc = "enter"
    /\ call' =
         IF call.available = "True" THEN AfterAvailable(call)
         ELSE IF call.available = "False" THEN NotAvailable(call)
         ELSE IF ~HasClient(call.setup)
         THEN NotAvailable([call EXCEPT !.available = "False"])
         ELSE IF call.predictor = "GeminiPredictor"
         THEN [call EXCEPT !.pc = "probing", !.probe = "sent"]
         ELSE AfterAvailable([call EXCEPT !.available = "True"])
    /\ UNCHANGED serverVars

\* client.models.list() settles: is_available() caches its answer
PredictorProbe(outcome) ==
    /\ InPredictor
    /\ call.pc = "probing"
    /\ outcome \in ProbeOutcomes
    /\ call' =
         IF outcome = "ok"
         THEN AfterAvailable([call EXCEPT !.available = "True",
                                          !.probe = outcome])
         ELSE NotAvailable([call EXCEPT !.available = "False",
                                        !.probe = outcome])
    /\ UNCHANGED serverVars

\* the head of the loop: the next request is sent, or the range is
\* exhausted and predict returns its failure value
PredictorRequest ==
    /\ InPredictor
    /\ call.pc = "loop"
    /\ call' = IF RangeHas(call.predictor, call.attempt)
               THEN [call EXCEPT !.pc = "awaiting"]
               ELSE [call EXCEPT !.pc = "returned",
                                 !.result = PredictorFailure(call.predictor,
                                                StrAllFailed)]
    /\ UNCHANGED serverVars

\* the request settles and the body of the iteration runs up to its
\* return, its sleep, or the end of the iteration
PredictorResponse(outcome) ==
    /\ InPredictor
    /\ call.pc = "awaiting"
    /\ outcome \in ProviderOutcomes[call.predictor]
    /\ LET sent  == Append(call.requests, outcome)
           retry == call.attempt < MAX_RETRIES[call.predictor] - 1
       IN  call' =
             IF outcome = "parsed"
             THEN [call EXCEPT !.requests = sent, !.pc = "returned",
                               !.result = [predictions |-> <<"top">>,
                                           error |-> NoneV]]
             ELSE IF outcome = "timeout"
             THEN [call EXCEPT !.requests = sent, !.pc = "returned",
                               !.result = PredictorFailure(call.predictor,
                                              StrTimeout)]
             ELSE IF outcome = "unparsable" /\ retry
             THEN [call EXCEPT !.requests = sent, !.pc = "sleeping",
                               !.hints = Append(@, call.attempt)]
             ELSE IF outcome = "error" /\ retry
             THEN [call EXCEPT !.requests = sent, !.pc = "sleeping"]
             ELSE [call EXCEPT !.requests = sent, !.pc = "loop",
                               !.attempt = @ + 1]
    /\ UNCHANGED serverVars

\* await asyncio.sleep(...); continue
PredictorWake ==
    /\ InPredictor
    /\ call.pc = "sleeping"
    /\ call' = [call EXCEPT !.pc = "loop", !.attempt = @ + 1]
    /\ UNCHANGED serverVars

\* GeminiPredictor.reset_availability(): the cache of is_available() is
\* cleared.  The method awaits nothing and any callback may call it, also
\* while a call of predict is suspended; the call under way has read the
\* cache already, or is about to write it when its probe settles.
\* OpenAIPredictor has no such method.
reset_availability ==
    /\ InPredictor
    /\ call.predictor = "GeminiPredictor"
    /\ call.available # "None"
    /\ call' = [call EXCEPT !.available = "None"]
    /\ UNCHANGED serverVars

\* the steps of the coroutine of predict
PredictorStep ==
    \/ PredictorEnter
    \/ \E outcome \in ProbeOutcomes : PredictorProbe(outcome)
    \/ PredictorRequest
    \/ \E outcome \in {"parsed", "unparsable", "no_choices", "error", "timeout"} :
           PredictorResponse(outcome)
    \/ PredictorWake

NextPredictor ==
    \/ PredictorStep
    \/ reset_availability

\* the event loop runs the coroutine whenever it can take a step, and a
\* request sent to the provider settles, with an answer or an error;
\* nothing obliges anyone to call reset_availability
SpecPredictor ==
    InitPredictor /\ [][NextPredictor]_vars /\ WF_vars(PredictorStep)

\* the requests the call has sent to the provider so far: the probe of
\* is_available(), the completion requests answered, the one awaited
ProviderRequests ==
    (IF call.probe # "none" THEN 1 ELSE 0)
    + Len(call.requests)
    + (IF call.pc = "awaiting" THEN 1 ELSE 0)

\* the outcomes of a completion request after which the loop goes on
PredictorFailed == {"unparsable", "error", "no_choices"}

\* what holds of a call of predict in every state: the requests sent, the
\* attempts that follow a failure, the hints, the value returned
PredictorBounded ==
    InPredictor =>
        /\ ProviderRequests <= MAX_RETRIES[call.predictor]
        /\ \A i \in 1..Len(call.requests) :
               (i < Len(call.requests) \/ call.pc \in {"awaiting", "sleeping", "loop"})
                   => call.requests[i] \in PredictorFailed
        /\ \A i \in 1..Len(call.hints) :
               /\ call.hints[i] + 1 \in 1..Len(call.requests)
               /\ call.requests[call.hints[i] + 1] = "unparsable"
        /\ call.pc = "returned" =>
               \/ \E error \in {StrNotAvailable, StrClientFailed, StrTimeout,
                                StrAllFailed} :
                     call.result = PredictorFailure(call.predictor, error)
               \/ /\ call.result # NoneV
                  /\ call.result.error = NoneV
                  /\ call.requests[Len(call.requests)] = "parsed"

\* C24: a predict call of GeminiPredictor or OpenAIPredictor sends at most
\* MAX_RETRIES requests to the provider (3 and 2); a completion request
\* after the first is sent only when the one before it ended in a parse
\* failure or a provider error (an exception, or a response that carries
\* no choice); the hint is appended only after an attempt that ended in a
\* parse failure; the call returns, with a parsed result or with its
\* absent or error value.
CexC24 == [](PredictorBounded) /\ <>(InPredictor /\ call.pc = "returned")

(***************************************************************************)
(* The key insight of a vote                                               *)
(***************************************************************************)
\* the items of the predictions whose agent is in the winning cluster
WinningMembers ==
    LET winner == call.voting.vote_breakdown[1].agents
    IN  {i \in 1..Len(call.predictions) :
            \E k \in 1..Len(winner) : winner[k] = call.predictions[i].agent}

\* C25: when at least one specialist answered, key_insight is the reasoning
\* of a member of the winning cluster whose confidence is the highest of
\* the cluster, also when every member's confidence is 0.
CexC25 ==
    (/\ call # NoneV
     /\ call.stage \in {"voted", "decided"}
     /\ "voting" \in DOMAIN call
     /\ FilterValid(call.predictions) # <<>>) =>
        \E i \in WinningMembers :
            /\ call.voting.key_insight = call.predictions[i].pred.reasoning
            /\ \A j \in WinningMembers :
                   call.predictions[j].pred.confidence
                       <= call.predictions[i].pred.confidence

(***************************************************************************)
(* The rationale of should_guess                                           *)
(***************************************************************************)
\* the numbers a rationale states, by its template:
\* "{n} agents agree at {pct}% confidence" states both,
\* "Confidence {pct}% - wait for more clues" states the confidence,
\* "Last clue - must guess now" states neither
StatedAgents(rationale) ==
    IF rationale[1] = "agents_agree" THEN <<rationale[2]>> ELSE <<>>
StatedConfidence(rationale) ==
    IF rationale[1] = "agents_agree" THEN <<rationale[3]>>
    ELSE IF rationale[1] = "wait" THEN <<rationale[2]>>
    ELSE <<>>

\* C26: at the clue numbers 1..4 the rationale states the confidence and
\* the number of agents of the winning cluster, for a decision to guess
\* and for a decision to wait alike; at clue 5 it says that this is the
\* last clue.
CexC26 ==
    (call # NoneV /\ call.stage = "decided" /\ "guess" \in DOMAIN call) =>
        /\ call.clue_number \in 1..4 =>
               /\ StatedConfidence(call.guess.rationale)
                      = <<RoundPct(call.voting.recommended_confidence)>>
               /\ StatedAgents(call.guess.rationale)
                      = <<IF call.voting.vote_breakdown = <<>> THEN 0
                          ELSE Len(call.voting.vote_breakdown[1].agents)>>
        /\ call.clue_number = 5 => call.guess.rationale = <<"last_clue">>

(***************************************************************************)
(* A submit that ends in an error                                          *)
(***************************************************************************)
\* client r is answered 500 in this step
FailedSubmit(r) ==
    /\ calls' = calls + 1
    /\ handler'[r].pc = "idle"
    /\ "request_no" \in DOMAIN handler'[r]
    /\ handler'[r].request_no = calls'
    /\ handler'[r].status = 500

\* the session of the submit as it was when the call came in; a session
\* that the call created held nothing
BeforeSubmit(sid) ==
    IF sid \in DOMAIN session_objs THEN session_objs[sid] ELSE NewSession(now)

\* C27: a submit that ends in an error leaves the clue list, the list of
\* analyses, the hypothesis tracker and last_prediction of its session as
\* they were before the call.
CexC27 ==
    [][\A r \in SerialReq :
          FailedSubmit(r) =>
              LET after == session_objs'[handler'[r].session_id]
                  before == BeforeSubmit(handler'[r].session_id)
              IN  /\ after.clues = before.clues
                  /\ after.clue_analyses = before.clue_analyses
                  /\ after.hypothesis_tracker = before.hypothesis_tracker
                  /\ after.last_prediction = before.last_prediction]_vars

(***************************************************************************)
(* normalize_answer applied to its own result                              *)
(***************************************************************************)
\* C29: normalize_answer is idempotent on the answers made of words,
\* articles and spaces: normalizing a normalized answer, or the key of a
\* cluster, gives the same string back.
CexC29 ==
    (call # NoneV /\ call.stage \in {"normalized", "clustered"}
                  /\ "normalized_first" \in DOMAIN call) =>
        /\ normalize_answer(call.normalized_first) = call.normalized_first
        /\ normalize_answer(call.normalized_second) = call.normalized_second
        /\ call.stage = "clustered" =>
               \A c \in 1..Len(call.clusters) :
                   normalize_answer(call.clusters[c].key)
                       = call.clusters[c].key

(***************************************************************************)
(* The turn numbers of two clients of one session                          *)
(***************************************************************************)
\* client r has been answered
Answered(r) == handler[r].pc = "idle" /\ "status" \in DOMAIN handler[r]

\* the last submits of two clients of one session were given different
\* turn numbers, and the clue of each is the clue at its turn number
TurnNumbersDistinct ==
    \A r \in Req :
        (Answered(r) /\ handler[r].session_id \in sessions) =>
            /\ session_objs[handler[r].session_id].clues[handler[r].clue_number]
                   = handler[r].clue_text
            /\ \A q \in Req \ {r} :
                   (/\ Answered(q)
                    /\ handler[q].session_id = handler[r].session_id)
                       => handler[q].clue_number # handler[r].clue_number

\* a submit gets the number after the clues the session had, which is the
\* number after that of the submit served just before it on the session
TurnNumbersConsecutive ==
    \A r \in Req :
        \A s \in 0..uuid_count :
            SubmitNaming(r, s) =>
                LET sid == handler'[r].session_id
                    had == IF sid \in DOMAIN session_objs
                           THEN Len(session_objs[sid].clues) ELSE 0
                IN  /\ handler'[r].clue_number = had + 1
                    /\ Len(session_objs'[sid].clues) = had + 1
                    /\ \A q \in Req :
                          (/\ Answered(q)
                           /\ handler[q].session_id = sid
                           /\ handler[q].request_no = calls)
                             => handler'[r].clue_number
                                   = handler[q].clue_number + 1

\* C30: two submit_clue calls of one session that arrive side by side get
\* different, consecutive turn numbers, and the turn number of each is the
\* position of its own clue in the clue list.
ThmC30 == [](TurnNumbersDistinct) /\ [][TurnNumbersConsecutive]_vars

\* the two clients sent a clue each for the same session, one right after
\* the other, without waiting for an answer: the turns 1 and 2, each with
\* the client's own clue
WitC30 ==
    /\ Answered(1)
    /\ Answered(2)
    /\ handler[1].session_id = handler[2].session_id
    /\ handler[2].request_no = handler[1].request_no + 1
    /\ handler[1].clue_number = 1
    /\ handler[2].clue_number = 2
    /\ session_objs[handler[1].session_id].clues = <<ClueOf(1, 1), ClueOf(2, 2)>>
====
